---- MODULE Spec2Model ----
(***************************************************************************)
(* The pbrt statement interpreter of yocto-gl: the two load_pbrt loops     *)
(* (yocto_modelio.cpp, which fills a pbrt_model, and yocto_sceneio.cpp,    *)
(* which fills a yocto_scene), their graphics-state stack, their named     *)
(* tables and the lists they emit.                                         *)
(*                                                                         *)
(* One step of the model is one iteration of the parse loop: a statement   *)
(* is read and the whole branch of the dispatch that handles it is run.    *)
(* The variable input holds the statements read so far, in order.          *)
(***************************************************************************)
EXTENDS Naturals, Integers, Sequences, FiniteSets, TLC

VARIABLES
  loader,           \* which load_pbrt runs: "modelio" or "sceneio"
  input,            \* the statements read so far (the consumed part of the file)
  status,           \* "run", "done" (loop left), "error" (exception thrown), "crash"
  error,            \* what() of the exception thrown, "" if none
  stack,            \* vector<pbrt_context>: the graphics-state stack
  cur_object,       \* name of the open object group, "" if none
  coordsys,         \* coordinate-system name -> the transform pair saved
  mmap,             \* sceneio: material name -> yocto_material
  amap,             \* sceneio: area-light name -> emission
  ammap,            \* sceneio: lookup_name -> index in scene.materials
  omap,             \* sceneio: object name -> recorded instances
  scene_shapes,     \* sceneio: scene.shapes
  scene_materials,  \* sceneio: scene.materials
  scene_instances,  \* sceneio: scene.instances
  pbrt_shapes,      \* modelio: pbrt.shapes
  pbrt_materials,   \* modelio: pbrt.materials
  pbrt_arealights,  \* modelio: pbrt.arealights
  objects,          \* modelio: object name -> indices into pbrt.shapes
  material_id,      \* static counter of the Material branch
  arealight_id,     \* static counter of the AreaLightSource branch
  light_id,         \* static counter of get_material
  shape_id,         \* static counter of the Shape branch (sceneio)
  scopes,           \* history: the *Begin statements still open, innermost last
  closed,           \* history: the scope the statement just read closed
  used,             \* history: per Shape that got a material, the context's
                    \* material and area-light names and the index returned
  files,            \* vector<file_wrapper>: the include stack, current file last
  handles,          \* the FILE* streams that are open (fopen'ed, not fclose'd)
  offsets,          \* per stream ever opened, the statements consumed from it
  perror,           \* sceneio: the parse-error flag the reader sets
  origin,           \* history: per statement read, its stream and its position
  includes,         \* history: per Include read, the file it stood in, its
                    \* argument and the path handed to open_file
  before,           \* history: the stack before the statement just read
  eof,              \* history: the streams read up to their end of file
  phase,            \* "load" while load_pbrt runs; the step of a writer or
                    \* reader run otherwise
  given,            \* what the writer is handed: values, a command, a scene
  text,             \* the text at hand: tokens, or the statements saved
  decoded           \* what the reader returns for text

vars == <<loader, input, status, error, stack, cur_object, coordsys, mmap, amap, ammap,
          omap, scene_shapes, scene_materials, scene_instances, pbrt_shapes,
          pbrt_materials, pbrt_arealights, objects, material_id, arealight_id,
          light_id, shape_id, scopes, closed, used, files, handles, offsets,
          perror, origin, includes, before, eof, phase, given, text, decoded>>

\* the state of load_pbrt, and the state of a run of the writers and readers
loadVars == <<loader, input, status, error, stack, cur_object, coordsys, mmap, amap, ammap,
              omap, scene_shapes, scene_materials, scene_instances, pbrt_shapes,
              pbrt_materials, pbrt_arealights, objects, material_id, arealight_id,
              light_id, shape_id, scopes, closed, used, files, handles, offsets,
              perror, origin, includes, before, eof>>
ioVars == <<phase, given, text, decoded>>

sceneVars == <<mmap, amap, ammap, omap, scene_shapes, scene_materials,
               scene_instances, light_id, shape_id>>
modelVars == <<pbrt_shapes, pbrt_materials, pbrt_arealights, objects>>
idVars    == <<material_id, arealight_id>>

(***************************************************************************)
(* Bounds of the model.                                                    *)
(***************************************************************************)
\* statements read in one run
MaxStatements == 5

\* names that MakeNamedMaterial / NamedMaterial statements of the input use
MaterialNames == {"m1", "m2"}
\* names that ObjectBegin / ObjectInstance statements of the input use
ObjectNames == {"a", "b"}

(***************************************************************************)
(* Frames.  frame3f is an affine map (linear part, origin) and a * b is    *)
(* the composition "apply b, then a".  The model keeps that structure in   *)
(* one dimension over the integers modulo 3: six maps, not commutative.    *)
(***************************************************************************)
Frames == [m : 1..2, o : 0..2]
identity3x4f == [m |-> 1, o |-> 0]
FrameMul(a, b) == [m |-> (a.m * b.m) % 3, o |-> (a.m * b.o + a.o) % 3]
\* the frames the transform statements of the input carry
InputFrames == {[m |-> 2, o |-> 0], [m |-> 1, o |-> 1]}

(***************************************************************************)
(* struct pbrt_context.                                                    *)
(***************************************************************************)
pbrt_context ==
  [transform_start        |-> identity3x4f,
   transform_end          |-> identity3x4f,
   material               |-> "",
   arealight              |-> "",
   medium_interior        |-> "",
   medium_exterior        |-> "",
   reverse                |-> FALSE,
   active_transform_start |-> TRUE,
   active_transform_end   |-> TRUE,
   last_lookat_distance   |-> 0]

(***************************************************************************)
(* stack.back().  On an empty vector the call is undefined behaviour: the  *)
(* outcomes modelled are a crash of the process (status "crash") and a     *)
(* read of whatever lies before the buffer, any record of BeforeBuffer.    *)
(* A write through stack.back() of an empty vector is lost or crashes, and *)
(* pop_back of an empty vector leaves it empty or crashes.                 *)
(***************************************************************************)
BeforeBuffer ==
  {pbrt_context,
   [pbrt_context EXCEPT !.material = "m1", !.transform_start = [m |-> 1, o |-> 1]]}
Back == IF stack # <<>> THEN {stack[Len(stack)]} ELSE BeforeBuffer
PopBack(s) == SubSeq(s, 1, Len(s) - 1)
SetBack(s, r) == IF s # <<>> THEN [s EXCEPT ![Len(s)] = r] ELSE s

Put(map, k, v) == [x \in DOMAIN map \cup {k} |-> IF x = k THEN v ELSE map[x]]

\* std::to_string of a small counter
Digits == <<"0", "1", "2", "3", "4", "5", "6", "7", "8", "9">>
to_string(n) ==
  IF n < 10 THEN Digits[n + 1] ELSE Digits[(n \div 10) + 1] \o Digits[(n % 10) + 1]

(***************************************************************************)
(* A statement as read_pbrt_command returns it: command, name, type, xform *)
(* and values (the one number the handler reads from the parameter list).  *)
(***************************************************************************)
Stmt(c, n, t, x, v) == [cmd |-> c, name |-> n, type |-> t, xform |-> x, values |-> v]
Plain(c) == Stmt(c, "", "", identity3x4f, 0)
Named(c, n) == Stmt(c, n, "", identity3x4f, 0)

NoScope == [kind |-> "", material |-> "", current |-> FALSE]
\* the scope record of a *Begin read now: its kind, and the material name
\* current before it when a current record exists
Opened(kind) ==
  IF stack # <<>>
  THEN [kind |-> kind, material |-> stack[Len(stack)].material, current |-> TRUE]
  ELSE [kind |-> kind, material |-> "", current |-> FALSE]
\* the scope an *End read now closes: the innermost open one, if of its kind
Closes(kind) ==
  IF scopes # <<>> /\ scopes[Len(scopes)].kind = kind
  THEN scopes[Len(scopes)] ELSE NoScope

\* the file load_pbrt is called on, as a path of components
TopFile == <<"scenes", "main.pbrt">>
\* a file_wrapper that owns the stream h opened on the path filename
file_wrapper(filename, h) == [filename |-> filename, fs |-> h]
\* a destructor that leaves the streams of fl open
DestroyNoClose(hs, fl) == hs
\* ~file_wrapper of every entry of the vector fl: fclose of its stream
Destroy(hs, fl) == hs \ {fl[i].fs : i \in DOMAIN fl}

LoadInit ==
  /\ loader \in {"modelio", "sceneio"}
  /\ files = <<file_wrapper(TopFile, 0)>>
  /\ handles = {0}
  /\ offsets = [h \in {0} |-> 0]
  /\ perror = FALSE
  /\ origin = <<>>
  /\ includes = <<>>
  /\ before = <<>>
  /\ eof = {}
  /\ input = <<>>
  /\ status = "run"
  /\ error = ""
  /\ stack = <<pbrt_context>>
  /\ cur_object = ""
  /\ coordsys = <<>>
  /\ mmap = [n \in {""} |-> [uri |-> "", type |-> "", values |-> 0, emission |-> 0]]
  /\ amap = [n \in {""} |-> 0]
  /\ ammap = <<>>
  /\ omap = <<>>
  /\ scene_shapes = <<>>
  /\ scene_materials = <<>>
  /\ scene_instances = <<>>
  /\ pbrt_shapes = <<>>
  /\ pbrt_materials = <<>>
  /\ pbrt_arealights = <<>>
  /\ objects = <<>>
  /\ material_id = 0
  /\ arealight_id = 0
  /\ light_id = 0
  /\ shape_id = 0
  /\ scopes = <<>>
  /\ closed = NoScope
  /\ used = <<>>

\* load_pbrt is entered: no writer runs
Init ==
  /\ LoadInit
  /\ phase = "load"
  /\ given = <<>>
  /\ text = <<>>
  /\ decoded = <<>>

\* the loop reads one more statement
Reading == status = "run" /\ Len(input) < MaxStatements
\* read_pbrt_cmdline returns the next statement s of files.back()
Fetch(s) ==
  LET fs == files[Len(files)].fs
  IN  /\ input' = Append(input, s)
      /\ origin' = Append(origin, [fs |-> fs, pos |-> offsets[fs] + 1])
      /\ before' = stack
      /\ eof' = eof
      /\ UNCHANGED ioVars
\* the positions of the streams once files.back() gave one statement
Consumed == [offsets EXCEPT ![files[Len(files)].fs] = @ + 1]
\* a statement other than Include is read
Read(s) == Fetch(s) /\ offsets' = Consumed /\ includes' = includes
\* the branch ends and the loop goes on with the same include stack
Ok == status' = "run" /\ error' = "" /\ UNCHANGED <<files, handles, perror>>
\* an exception leaves load_pbrt: the unwinding destroys the vector files
Throw(what) ==
  /\ status' = "error"
  /\ error' = what
  /\ files' = <<>>
  /\ handles' = Destroy(handles, files)
  /\ perror' = perror
Crash == status' = "crash" /\ error' = "" /\ UNCHANGED <<files, handles, perror>>
\* a crash on the undefined access: nothing else of the state is kept track of
CrashOnEmpty ==
  /\ stack = <<>>
  /\ Crash
  /\ UNCHANGED <<stack, cur_object, sceneVars, modelVars, idVars>>

(***************************************************************************)
(* The scope statements.                                                   *)
(***************************************************************************)
\* WorldBegin that pushes a copy of the current record
WorldBeginDuplicate ==
  /\ Reading
  /\ Read(Plain("WorldBegin"))
  /\ \E r \in Back : stack' = Append(stack, r)
  /\ Ok
  /\ scopes' = Append(scopes, Opened("World"))
  /\ closed' = NoScope
  /\ UNCHANGED <<loader, coordsys, used, cur_object, sceneVars, modelVars, idVars>>

\* WorldBegin: stack.push_back({}), a default-constructed record
WorldBegin ==
  /\ Reading
  /\ Read(Plain("WorldBegin"))
  /\ stack' = Append(stack, pbrt_context)
  /\ Ok
  /\ scopes' = Append(scopes, Opened("World"))
  /\ closed' = NoScope
  /\ UNCHANGED <<loader, coordsys, used, cur_object, sceneVars, modelVars, idVars>>

\* WorldEnd without the test of the depth left after the pop
WorldEndUnchecked ==
  /\ Reading
  /\ Read(Plain("WorldEnd"))
  /\ IF stack = <<>>
     THEN Throw("bad pbrt stack") /\ stack' = stack
     ELSE stack' = PopBack(stack) /\ Ok
  /\ closed' = Closes("World")
  /\ scopes' = PopBack(scopes)
  /\ UNCHANGED <<loader, coordsys, used, cur_object, sceneVars, modelVars, idVars>>

WorldEnd ==
  /\ Reading
  /\ Read(Plain("WorldEnd"))
  /\ IF stack = <<>>
     THEN Throw("bad pbrt stack") /\ stack' = stack
     ELSE /\ stack' = PopBack(stack)
          /\ IF Len(stack') # 1 THEN Throw("bad stack") ELSE Ok
  /\ closed' = Closes("World")
  /\ scopes' = PopBack(scopes)
  /\ UNCHANGED <<loader, coordsys, used, cur_object, sceneVars, modelVars, idVars>>

\* AttributeBegin and TransformBegin: stack.push_back(stack.back())
PushCopy(kind) ==
  /\ Reading
  /\ Read(Plain(kind \o "Begin"))
  /\ scopes' = Append(scopes, Opened(kind))
  /\ closed' = NoScope
  /\ UNCHANGED <<loader, coordsys, used>>
  /\ \/ /\ \E r \in Back : stack' = Append(stack, r)
        /\ Ok
        /\ UNCHANGED <<cur_object, sceneVars, modelVars, idVars>>
     \/ CrashOnEmpty

\* an *End that closes the scope and forgets the pop
PopForgotten(kind) ==
  /\ Reading
  /\ Read(Plain(kind \o "End"))
  /\ IF stack = <<>>
     THEN Throw("bad pbrt stack") /\ stack' = stack
     ELSE stack' = stack /\ Ok
  /\ closed' = Closes(kind)
  /\ scopes' = PopBack(scopes)
  /\ UNCHANGED <<loader, coordsys, used, cur_object, sceneVars, modelVars, idVars>>

\* AttributeEnd and TransformEnd: the guard is stack.empty(), then pop_back
PopChecked(kind) ==
  /\ Reading
  /\ Read(Plain(kind \o "End"))
  /\ IF stack = <<>>
     THEN Throw("bad pbrt stack") /\ stack' = stack
     ELSE stack' = PopBack(stack) /\ Ok
  /\ closed' = Closes(kind)
  /\ scopes' = PopBack(scopes)
  /\ UNCHANGED <<loader, coordsys, used, cur_object, sceneVars, modelVars, idVars>>

AttributeBegin == PushCopy("Attribute")
AttributeEnd == PopChecked("Attribute")
TransformBegin == PushCopy("Transform")
TransformEnd == PopChecked("Transform")

ObjectBegin ==
  /\ Reading
  /\ \E n \in ObjectNames :
       /\ Read(Named("ObjectBegin", n))
       /\ \/ /\ \E r \in Back : stack' = Append(stack, r)
             /\ cur_object' = n
             /\ IF loader = "sceneio"
                THEN omap' = Put(omap, n, <<>>) /\ UNCHANGED objects
                ELSE objects' = Put(objects, n, <<>>) /\ UNCHANGED omap
             /\ Ok
          \/ /\ stack = <<>>
             /\ Crash
             /\ UNCHANGED <<stack, cur_object, omap, objects>>
  /\ scopes' = Append(scopes, Opened("Object"))
  /\ closed' = NoScope
  /\ UNCHANGED <<loader, coordsys, used, idVars, mmap, amap, ammap, scene_shapes, scene_materials,
                 scene_instances, light_id, shape_id, pbrt_shapes, pbrt_materials,
                 pbrt_arealights>>

\* ObjectEnd that closes the group and forgets the pop
ObjectEndNoPop ==
  /\ Reading
  /\ Read(Plain("ObjectEnd"))
  /\ closed' = Closes("Object")
  /\ scopes' = PopBack(scopes)
  /\ cur_object' = ""
  /\ Ok
  /\ UNCHANGED <<loader, coordsys, used, stack, sceneVars, modelVars, idVars>>

\* ObjectEnd: pop_back with no guard at all
ObjectEnd ==
  /\ Reading
  /\ Read(Plain("ObjectEnd"))
  /\ closed' = Closes("Object")
  /\ scopes' = PopBack(scopes)
  /\ UNCHANGED <<loader, coordsys, used, sceneVars, modelVars, idVars>>
  /\ \/ /\ stack' = PopBack(stack)
        /\ cur_object' = ""
        /\ Ok
     \/ /\ stack = <<>>
        /\ Crash
        /\ UNCHANGED <<stack, cur_object>>

(***************************************************************************)
(* Transform statements.                                                   *)
(***************************************************************************)
\* concat_transform that multiplies from the left
concat_transform_left(ctx, xform) ==
  [ctx EXCEPT
     !.transform_start = IF ctx.active_transform_start THEN FrameMul(xform, @) ELSE @,
     !.transform_end   = IF ctx.active_transform_end THEN FrameMul(xform, @) ELSE @]

concat_transform(ctx, xform) ==
  [ctx EXCEPT
     !.transform_start = IF ctx.active_transform_start THEN FrameMul(@, xform) ELSE @,
     !.transform_end   = IF ctx.active_transform_end THEN FrameMul(@, xform) ELSE @]

\* a statement that only assigns `written` to the current record: on an empty
\* stack the write goes through stack.back() of an empty vector
WriteBack(stmt, written) ==
  /\ Reading
  /\ Read(stmt)
  /\ scopes' = scopes
  /\ closed' = NoScope
  /\ UNCHANGED <<loader, coordsys, used, cur_object, sceneVars, modelVars, idVars>>
  /\ \/ /\ stack # <<>>
        /\ stack' = SetBack(stack, written)
        /\ Ok
     \/ /\ stack = <<>>
        /\ UNCHANGED stack
        /\ Ok \/ Crash

ConcatTransform ==
  \E x \in InputFrames :
    WriteBack(Stmt("ConcatTransform", "", "", x, 0),
              concat_transform(stack[Len(stack)], x))

\* set_transform that writes both slots, active or not
set_transform_both(ctx, xform) ==
  [ctx EXCEPT !.transform_start = xform, !.transform_end = xform]

set_transform(ctx, xform) ==
  [ctx EXCEPT
     !.transform_start = IF ctx.active_transform_start THEN xform ELSE @,
     !.transform_end   = IF ctx.active_transform_end THEN xform ELSE @]

\* the frames of yocto_math.h the statements build from their arguments, in
\* the one dimension of Frames: a scaling by v, a translation by v, the
\* half turn (the one rotation that is not the identity there), the frame at
\* `from` that looks towards `to`, and the inverse of a frame
scaling_frame(v) == [m |-> v, o |-> 0]
translation_frame(v) == [m |-> 1, o |-> v]
rotation_frame(turn) == [m |-> IF turn THEN 2 ELSE 1, o |-> 0]
lookat_frame(from, to) == [m |-> IF to < from THEN 2 ELSE 1, o |-> from]
inverse(a) == [m |-> a.m, o |-> (3 - ((a.m * a.o) % 3)) % 3]
length(v) == IF v < 0 THEN 0 - v ELSE v

\* the arguments the Scale, Translate, Rotate and LookAt statements carry
InputScalings == {2}
InputTranslations == {1}
InputRotations == {TRUE}
InputLookAts == {[from |-> 1, to |-> 0]}
\* the frames the Transform statements carry
InputTransforms == {[m |-> 2, o |-> 1], [m |-> 1, o |-> 2]}

Transform ==
  \E x \in InputTransforms :
    WriteBack(Stmt("Transform", "", "", x, 0),
              set_transform(stack[Len(stack)], x))

Scale ==
  \E v \in InputScalings :
    WriteBack(Stmt("Scale", "", "", scaling_frame(v), 0),
              concat_transform(stack[Len(stack)], scaling_frame(v)))

Translate ==
  \E v \in InputTranslations :
    WriteBack(Stmt("Translate", "", "", translation_frame(v), 0),
              concat_transform(stack[Len(stack)], translation_frame(v)))

Rotate ==
  \E v \in InputRotations :
    WriteBack(Stmt("Rotate", "", "", rotation_frame(v), 0),
              concat_transform(stack[Len(stack)], rotation_frame(v)))

LookAt ==
  \E a \in InputLookAts :
    LET frame == lookat_frame(a.from, a.to)
    IN  WriteBack(Stmt("LookAt", "", "", frame, length(a.from - a.to)),
                  [concat_transform(stack[Len(stack)], inverse(frame))
                     EXCEPT !.last_lookat_distance = length(a.from - a.to)])

\* the names the CoordinateSystem and CoordSysTransform statements carry
CoordSysNames == {"c1", "c2"}

\* CoordinateSystem: the pair of the current record is saved under the name
CoordinateSystem ==
  /\ Reading
  /\ scopes' = scopes
  /\ closed' = NoScope
  /\ UNCHANGED <<loader, used, cur_object, sceneVars, modelVars, idVars>>
  /\ \E n \in CoordSysNames :
       /\ Read(Named("CoordinateSystem", n))
       /\ \/ /\ \E r \in Back :
                  coordsys' = Put(coordsys, n,
                                  [transform_start |-> r.transform_start,
                                   transform_end   |-> r.transform_end])
             /\ UNCHANGED stack
             /\ Ok
          \/ /\ stack = <<>>
             /\ Crash
             /\ UNCHANGED <<stack, coordsys>>

\* CoordSysTransform that assigns the saved pair to the active slots only
CoordSysTransformActive ==
  \E n \in CoordSysNames :
    IF n \in DOMAIN coordsys
    THEN WriteBack(Named("CoordSysTransform", n),
                   [stack[Len(stack)] EXCEPT
                      !.transform_start =
                         IF stack[Len(stack)].active_transform_start THEN coordsys[n].transform_start ELSE @,
                      !.transform_end =
                         IF stack[Len(stack)].active_transform_end THEN coordsys[n].transform_end ELSE @])
    ELSE /\ Reading
         /\ Read(Named("CoordSysTransform", n))
         /\ scopes' = scopes
         /\ closed' = NoScope
         /\ Ok
         /\ UNCHANGED <<loader, coordsys, used, stack, cur_object, sceneVars, modelVars,
                        idVars>>

\* CoordSysTransform: a saved pair is assigned to both slots of the current
\* record; a name that was never saved leaves the record as it is
CoordSysTransform ==
  \E n \in CoordSysNames :
    IF n \in DOMAIN coordsys
    THEN WriteBack(Named("CoordSysTransform", n),
                   [stack[Len(stack)] EXCEPT
                      !.transform_start = coordsys[n].transform_start,
                      !.transform_end   = coordsys[n].transform_end])
    ELSE /\ Reading
         /\ Read(Named("CoordSysTransform", n))
         /\ scopes' = scopes
         /\ closed' = NoScope
         /\ Ok
         /\ UNCHANGED <<loader, coordsys, used, stack, cur_object, sceneVars, modelVars,
                        idVars>>

(***************************************************************************)
(* Materials and area lights.                                              *)
(***************************************************************************)
\* the types add_pbrt_material and add_pbrt_arealight accept, among those
\* the statements of the input use
MaterialTypes == {"matte", "glass"}
ArealightTypes == {"diffuse"}
ShapeTypes == {"sphere"}
\* what() of the std::out_of_range that unordered_map::at throws
OutOfRange == "unordered_map::at"

\* the types the Material, MakeNamedMaterial, AreaLightSource and Shape
\* statements of the input carry
InputMaterialTypes == {"", "matte", "paper"}
InputNamedMaterialTypes == {"matte", "glass"}
InputArealightTypes == {"diffuse"}
InputShapeTypes == {"sphere", "cone"}
InputEmissions == {0, 1}

yocto_material(name, type, values) ==
  [uri |-> name, type |-> type, values |-> values, emission |-> 0]

\* the writes of a statement through stack.back() (lost on an empty vector)
\* followed by the rest of its branch; on an empty vector it may crash instead
Material ==
  /\ Reading
  /\ scopes' = scopes
  /\ closed' = NoScope
  /\ \E t \in InputMaterialTypes :
       /\ Read(Stmt("Material", "", t, identity3x4f, 0))
       /\ \/ /\ stack = <<>>
             /\ Crash
             /\ UNCHANGED <<stack, mmap, pbrt_materials, material_id>>
          \/ IF loader = "modelio"
             THEN LET name == "material_" \o to_string(material_id)
                  IN  /\ material_id' = material_id + 1
                      /\ IF t = ""
                         THEN /\ stack' = SetBack(stack, [stack[Len(stack)] EXCEPT !.material = ""])
                              /\ UNCHANGED pbrt_materials
                         ELSE /\ stack' = SetBack(stack, [stack[Len(stack)] EXCEPT !.material = name])
                              /\ pbrt_materials' =
                                   Append(pbrt_materials, [name |-> name, type |-> t])
                      /\ Ok
                      /\ UNCHANGED mmap
             ELSE IF t = ""
             THEN /\ stack' = SetBack(stack, [stack[Len(stack)] EXCEPT !.material = ""])
                  /\ Ok
                  /\ UNCHANGED <<mmap, pbrt_materials, material_id>>
             ELSE LET name == "unnamed_material_" \o to_string(material_id)
                  IN  /\ material_id' = material_id + 1
                      /\ stack' = SetBack(stack, [stack[Len(stack)] EXCEPT !.material = name])
                      /\ IF t \in MaterialTypes
                         THEN mmap' = Put(mmap, name, yocto_material(name, t, 0)) /\ Ok
                         ELSE Throw("unsupported material type" \o t) /\ UNCHANGED mmap
                      /\ UNCHANGED pbrt_materials
  /\ UNCHANGED <<loader, coordsys, used, cur_object, amap, ammap, omap, scene_shapes,
                 scene_materials, scene_instances, light_id, shape_id, pbrt_shapes,
                 pbrt_arealights, objects, arealight_id>>

MakeNamedMaterial ==
  /\ Reading
  /\ scopes' = scopes
  /\ closed' = NoScope
  /\ \E n \in MaterialNames, t \in InputNamedMaterialTypes :
       /\ Read(Stmt("MakeNamedMaterial", n, t, identity3x4f, 0))
       /\ IF loader = "modelio"
          THEN /\ pbrt_materials' = Append(pbrt_materials, [name |-> n, type |-> t])
               /\ Ok
               /\ UNCHANGED <<stack, mmap>>
          ELSE \/ /\ stack = <<>>
                  /\ Crash
                  /\ UNCHANGED <<stack, mmap, pbrt_materials>>
               \/ /\ stack' = SetBack(stack, [stack[Len(stack)] EXCEPT !.material = n])
                  /\ IF t \in MaterialTypes
                     THEN mmap' = Put(mmap, n, yocto_material(n, t, 0)) /\ Ok
                     ELSE Throw("unsupported material type" \o t) /\ UNCHANGED mmap
                  /\ UNCHANGED pbrt_materials
  /\ UNCHANGED <<loader, coordsys, used, cur_object, amap, ammap, omap, scene_shapes,
                 scene_materials, scene_instances, light_id, shape_id, pbrt_shapes,
                 pbrt_arealights, objects, idVars>>

NamedMaterial ==
  \E n \in MaterialNames :
    WriteBack(Named("NamedMaterial", n),
              [stack[Len(stack)] EXCEPT !.material = n])

AreaLightSource ==
  /\ Reading
  /\ scopes' = scopes
  /\ closed' = NoScope
  /\ \E t \in InputArealightTypes, e \in InputEmissions :
       /\ Read(Stmt("AreaLightSource", "", t, identity3x4f, e))
       /\ \/ /\ stack = <<>>
             /\ Crash
             /\ UNCHANGED <<stack, amap, pbrt_arealights, arealight_id>>
          \/ IF loader = "modelio"
             THEN LET name == "arealight_" \o to_string(arealight_id)
                  IN  /\ arealight_id' = arealight_id + 1
                      /\ \E r \in Back :
                           pbrt_arealights' = Append(pbrt_arealights,
                             [name |-> name, type |-> t, frame |-> r.transform_start,
                              frend |-> r.transform_end])
                      /\ stack' = SetBack(stack, [stack[Len(stack)] EXCEPT !.arealight = name])
                      /\ Ok
                      /\ UNCHANGED amap
             ELSE LET name == "unnamed_arealight_" \o to_string(arealight_id)
                  IN  /\ arealight_id' = arealight_id + 1
                      /\ stack' = SetBack(stack, [stack[Len(stack)] EXCEPT !.arealight = name])
                      /\ IF t \in ArealightTypes
                         THEN amap' = Put(amap, name, e) /\ Ok
                         ELSE Throw("unsupported arealight type " \o t) /\ UNCHANGED amap
                      /\ UNCHANGED pbrt_arealights
  /\ UNCHANGED <<loader, coordsys, used, cur_object, mmap, ammap, omap, scene_shapes,
                 scene_materials, scene_instances, light_id, shape_id, pbrt_shapes,
                 pbrt_materials, objects, material_id>>

(***************************************************************************)
(* Shapes and object instances.                                            *)
(***************************************************************************)
\* get_material of add_pbrt_shape: the index of the material derived for the
\* context's material and area light, cached in ammap under lookup_name
lookup_name(ctx) == ctx.material \o "_______" \o ctx.arealight

\* get_material without the cache: a derived material per call
get_material_uncached(ctx) ==
  IF ctx.material \notin DOMAIN mmap \/ ctx.arealight \notin DOMAIN amap
  THEN [thrown |-> TRUE, index |-> 0 - 1, materials |-> scene_materials,
        ammap |-> ammap, light_id |-> light_id]
  ELSE LET lit == amap[ctx.arealight] # 0
           material ==
             IF lit
             THEN [mmap[ctx.material] EXCEPT
                     !.emission = amap[ctx.arealight],
                     !.uri = @ \o "_arealight_" \o to_string(light_id)]
             ELSE mmap[ctx.material]
       IN  [thrown |-> FALSE, index |-> Len(scene_materials),
            materials |-> Append(scene_materials, material),
            ammap |-> Put(ammap, lookup_name(ctx), Len(scene_materials)),
            light_id |-> IF lit THEN light_id + 1 ELSE light_id]

get_material(ctx) ==
  IF lookup_name(ctx) \in DOMAIN ammap
  THEN [thrown |-> FALSE, index |-> ammap[lookup_name(ctx)],
        materials |-> scene_materials, ammap |-> ammap, light_id |-> light_id]
  ELSE get_material_uncached(ctx)

\* add_pbrt_shape, called with the context ctx
add_pbrt_shape(ctx, t) ==
  /\ shape_id' = shape_id + 1
  /\ IF t \notin ShapeTypes
     THEN /\ Throw("unsupported shape type " \o t)
          /\ UNCHANGED <<scene_shapes, scene_materials, scene_instances, ammap,
                         omap, light_id, used>>
     ELSE LET shape == [uri |-> "shapes/shape__" \o to_string(shape_id) \o ".ply",
                        type |-> t]
              got == get_material(ctx)
              instance == [frame |-> ctx.transform_start,
                           shape |-> Len(scene_shapes), material |-> got.index]
          IN  /\ scene_shapes' = Append(scene_shapes, shape)
              /\ IF got.thrown
                 THEN /\ Throw(OutOfRange)
                      /\ UNCHANGED <<scene_materials, scene_instances, ammap, omap,
                                     light_id, used>>
                 ELSE /\ scene_materials' = got.materials
                      /\ ammap' = got.ammap
                      /\ light_id' = got.light_id
                      /\ used' = Append(used, [material |-> ctx.material,
                                               arealight |-> ctx.arealight,
                                               index |-> got.index])
                      /\ IF cur_object = ""
                         THEN /\ scene_instances' = Append(scene_instances, instance)
                              /\ UNCHANGED omap
                         ELSE /\ omap' = [omap EXCEPT ![cur_object] = Append(@, instance)]
                              /\ UNCHANGED scene_instances
                      /\ Ok
  /\ UNCHANGED <<stack, cur_object, mmap, amap, modelVars, idVars>>

\* the Shape branch of the pbrt_model loader
pbrt_shape(ctx, t) ==
  LET shape == [type            |-> t,
                frame           |-> ctx.transform_start,
                frend           |-> ctx.transform_end,
                material        |-> ctx.material,
                arealight       |-> ctx.arealight,
                interior        |-> ctx.medium_interior,
                exterior        |-> ctx.medium_exterior,
                is_instanced    |-> cur_object # "",
                instance_frames |-> IF cur_object # "" THEN <<>> ELSE <<identity3x4f>>,
                instance_frends |-> IF cur_object # "" THEN <<>> ELSE <<identity3x4f>>]
  IN  /\ pbrt_shapes' = Append(pbrt_shapes, shape)
      /\ IF cur_object # ""
         THEN objects' = Put(objects, cur_object,
                IF cur_object \in DOMAIN objects
                THEN Append(objects[cur_object], Len(pbrt_shapes))
                ELSE <<Len(pbrt_shapes)>>)
         ELSE UNCHANGED objects
      /\ Ok
      /\ UNCHANGED <<stack, cur_object, sceneVars, used, pbrt_materials,
                     pbrt_arealights, idVars>>

Shape ==
  /\ Reading
  /\ scopes' = scopes
  /\ closed' = NoScope
  /\ UNCHANGED <<loader, coordsys>>
  /\ \E t \in InputShapeTypes :
       /\ Read(Stmt("Shape", "", t, identity3x4f, 0))
       /\ \/ \E ctx \in Back :
               IF loader = "sceneio" THEN add_pbrt_shape(ctx, t) ELSE pbrt_shape(ctx, t)
          \/ CrashOnEmpty /\ UNCHANGED used

\* the instances of a group with the two factors of the product exchanged
object_instances_swapped(ctx, group) ==
  [i \in 1..Len(group) |->
     [frame    |-> FrameMul(group[i].frame, ctx.transform_start),
      shape    |-> group[i].shape,
      material |-> group[i].material]]

\* the instances of a group with the material looked up again under ctx
object_instances_rebound(ctx, group) ==
  [i \in 1..Len(group) |->
     [frame    |-> FrameMul(ctx.transform_start, group[i].frame),
      shape    |-> group[i].shape,
      material |-> IF lookup_name(ctx) \in DOMAIN ammap
                   THEN ammap[lookup_name(ctx)] ELSE group[i].material]]


\* the instances an ObjectInstance adds for the recorded instances group,
\* read under the context ctx
object_instances(ctx, group) ==
  [i \in 1..Len(group) |->
     [frame    |-> FrameMul(ctx.transform_start, group[i].frame),
      shape    |-> group[i].shape,
      material |-> group[i].material]]

\* pbrt.shapes after an ObjectInstance of the shapes ids, read under ctx
instance_frames(ctx, ids) ==
  [i \in 1..Len(pbrt_shapes) |->
     IF \E k \in 1..Len(ids) : ids[k] = i - 1
     THEN [pbrt_shapes[i] EXCEPT
             !.instance_frames = Append(@, ctx.transform_start),
             !.instance_frends = Append(@, ctx.transform_end)]
     ELSE pbrt_shapes[i]]

ObjectInstance ==
  /\ Reading
  /\ scopes' = scopes
  /\ closed' = NoScope
  /\ UNCHANGED <<loader, coordsys, used, stack, cur_object, idVars>>
  /\ \E n \in ObjectNames :
       /\ Read(Named("ObjectInstance", n))
       /\ IF loader = "sceneio"
          THEN /\ UNCHANGED <<modelVars, mmap, amap, ammap, omap, scene_shapes,
                              scene_materials, light_id, shape_id>>
               /\ IF n \notin DOMAIN omap
                  THEN Throw(OutOfRange) /\ UNCHANGED scene_instances
                  ELSE IF omap[n] = <<>>
                  THEN Ok /\ UNCHANGED scene_instances
                  ELSE \/ /\ \E ctx \in Back :
                              scene_instances' =
                                scene_instances \o object_instances(ctx, omap[n])
                          /\ Ok
                       \/ /\ stack = <<>>
                          /\ Crash
                          /\ UNCHANGED scene_instances
          ELSE /\ UNCHANGED <<sceneVars, pbrt_materials, pbrt_arealights, objects>>
               /\ IF n \notin DOMAIN objects
                  THEN Throw("cannot find object " \o n) /\ UNCHANGED pbrt_shapes
                  ELSE IF objects[n] = <<>>
                  THEN Ok /\ UNCHANGED pbrt_shapes
                  ELSE \/ /\ \E ctx \in Back :
                              pbrt_shapes' = instance_frames(ctx, objects[n])
                          /\ Ok
                       \/ /\ stack = <<>>
                          /\ Crash
                          /\ UNCHANGED pbrt_shapes

(***************************************************************************)
(* Paths.  A path is the sequence of its components; parent_path drops the *)
(* last one and operator/ appends a relative path.                         *)
(***************************************************************************)
parent_path(p) == SubSeq(p, 1, Len(p) - 1)
PathJoin(a, b) == a \o b
\* the arguments the Include statements of the input carry
IncludeNames == {"a.pbrt", "sub/b.pbrt"}
\* fs::path of a string
path(str) ==
  CASE str = "a.pbrt" -> <<"a.pbrt">>
    [] str = "sub/b.pbrt" -> <<"sub", "b.pbrt">>
    [] str = "scenes/main.pbrt" -> <<"scenes", "main.pbrt">>
\* path::string()
RECURSIVE PathString(_)
PathString(p) ==
  IF p = <<>> THEN ""
  ELSE IF Len(p) = 1 THEN p[1]
  ELSE p[1] \o "/" \o PathString(Tail(p))

set_sceneio_error(msg) == "error loading " \o PathString(TopFile) \o ": " \o msg

\* a loop that pops the file and stops reading, whatever is left on the stack
PopFileAndStop ==
  /\ files' = PopBack(files)
  /\ handles' = Destroy(handles, <<files[Len(files)]>>)
  /\ status' = "done"
  /\ error' = ""

\* what is left of the loop once files.back() gave no statement: pop_back
\* destroys the entry; with no file left the loop ends, and the scene loader
\* returns the parse error the reader flagged
PopFile ==
  /\ files' = PopBack(files)
  /\ handles' = Destroy(handles, <<files[Len(files)]>>)
  /\ IF files' # <<>> THEN status' = "run" /\ error' = ""
     ELSE IF loader = "sceneio" /\ perror'
          THEN status' = "error" /\ error' = set_sceneio_error("parse error")
     ELSE status' = "done" /\ error' = ""

\* read_pbrt_cmdline finds no further statement in files.back()
EndOfFile ==
  /\ status = "run"
  /\ perror' = perror
  /\ PopFile
  /\ eof' = eof \cup {files[Len(files)].fs}
  /\ UNCHANGED ioVars
  /\ UNCHANGED <<loader, coordsys, used, input, stack, cur_object, sceneVars, modelVars,
                 idVars, scopes, closed, offsets, origin, includes, before>>

\* what load_pbrt hands back: the lists of the scene or of the pbrt_model
Loaded ==
  [materials |-> scene_materials, shapes |-> scene_shapes,
   instances |-> scene_instances, pbrt_materials |-> pbrt_materials,
   pbrt_shapes |-> pbrt_shapes, pbrt_arealights |-> pbrt_arealights]

\* load_pbrt has returned and the same process calls it again on the same
\* file: the locals start anew and the static counters keep their values.
\* given keeps the statements of the first call and decoded what it loaded.
Reload ==
  /\ phase = "load"
  /\ status = "done"
  /\ phase' = "reload"
  /\ given' = input
  /\ decoded' = Loaded
  /\ text' = text
  /\ files' = <<file_wrapper(TopFile, 0)>>
  /\ handles' = {0}
  /\ offsets' = [h \in {0} |-> 0]
  /\ perror' = FALSE
  /\ origin' = <<>>
  /\ includes' = <<>>
  /\ before' = <<>>
  /\ eof' = {}
  /\ input' = <<>>
  /\ status' = "run"
  /\ error' = ""
  /\ stack' = <<pbrt_context>>
  /\ cur_object' = ""
  /\ coordsys' = <<>>
  /\ mmap' = [n \in {""} |-> [uri |-> "", type |-> "", values |-> 0, emission |-> 0]]
  /\ amap' = [n \in {""} |-> 0]
  /\ ammap' = <<>>
  /\ omap' = <<>>
  /\ scene_shapes' = <<>>
  /\ scene_materials' = <<>>
  /\ scene_instances' = <<>>
  /\ pbrt_shapes' = <<>>
  /\ pbrt_materials' = <<>>
  /\ pbrt_arealights' = <<>>
  /\ objects' = <<>>
  /\ scopes' = <<>>
  /\ closed' = NoScope
  /\ used' = <<>>
  /\ UNCHANGED <<loader, material_id, arealight_id, light_id, shape_id>>

\* the second call reads the statements the first call read, one per step
Replay ==
  /\ phase = "reload"
  /\ IF Len(input) < Len(given)
     THEN /\ Material \/ AreaLightSource \/ Shape
          /\ input' = Append(input, given[Len(input) + 1])
     ELSE EndOfFile

\* one file of materials, area lights and shapes, loaded twice
NextReload ==
  \/ phase = "load" /\ (Material \/ AreaLightSource \/ Shape \/ EndOfFile)
  \/ Reload
  \/ Replay

SpecReload == Init /\ [][NextReload]_vars

\* the path the Include branch hands to open_file for the argument name
\* (in the pbrt_model loader the local filename, the argument, hides the
\* parameter filename of load_pbrt)
include_path(name) ==
  IF loader = "modelio"
  THEN PathJoin(parent_path(path(name)), path(name))
  ELSE PathJoin(parent_path(TopFile), path(name))

\* the files an input includes are distinct files, each read once, and fopen
\* finds the file or not
Include ==
  /\ Reading
  /\ \E name \in IncludeNames, found \in BOOLEAN :
       LET opened == include_path(name)
           h      == Len(includes) + 1
       IN  /\ opened # TopFile
           /\ \A i \in DOMAIN includes : includes[i].opened # opened
           /\ Fetch(Named("Include", name))
           /\ includes' = Append(includes,
                [from |-> files[Len(files)].filename, name |-> name,
                 opened |-> opened, found |-> found, fs |-> h,
                 at |-> Len(input) + 1])
           /\ IF found
              THEN /\ files' = Append(files, file_wrapper(opened, h))
                   /\ handles' = handles \cup {h}
                   /\ offsets' = Put(Consumed, h, 0)
                   /\ status' = "run"
                   /\ error' = ""
                   /\ perror' = perror
              ELSE /\ offsets' = Consumed
                   /\ IF loader = "modelio"
                      THEN Throw("could not open file " \o PathString(opened))
                      ELSE Throw(set_sceneio_error("error in include"))
  /\ scopes' = scopes
  /\ closed' = NoScope
  /\ UNCHANGED <<loader, coordsys, used, stack, cur_object, sceneVars, modelVars, idVars>>

\* keywords no branch of the dispatch knows
UnknownKeywords == {"Foo"}

\* the reader of the scene loader meets a statement it cannot decode: it
\* raises the flag and returns false
ReaderFails == perror' = TRUE

UnknownCommand ==
  /\ Reading
  /\ \E c \in UnknownKeywords :
       /\ Read(Plain(c))
       /\ IF loader = "modelio"
          THEN Throw("unknown command " \o c)
          ELSE ReaderFails /\ PopFile
  /\ scopes' = scopes
  /\ closed' = NoScope
  /\ UNCHANGED <<loader, coordsys, used, stack, cur_object, sceneVars, modelVars, idVars>>

\* the names the ActiveTransform statements of the input carry
InputActiveNames == {"StartTime", "EndTime", "All", "None"}

ActiveTransform ==
  /\ Reading
  /\ scopes' = scopes
  /\ closed' = NoScope
  /\ UNCHANGED <<loader, coordsys, used, cur_object, sceneVars, modelVars, idVars>>
  /\ \E n \in InputActiveNames :
       /\ Read(Named("ActiveTransform", n))
       /\ IF n \in {"StartTime", "EndTime", "All"}
          THEN \/ /\ stack # <<>>
                  /\ stack' = SetBack(stack,
                       [stack[Len(stack)] EXCEPT
                          !.active_transform_start = n \in {"StartTime", "All"},
                          !.active_transform_end   = n \in {"EndTime", "All"}])
                  /\ Ok
               \/ /\ stack = <<>>
                  /\ UNCHANGED stack
                  /\ Ok \/ Crash
          ELSE Throw("bad active transform") /\ UNCHANGED stack

NextScope ==
  \/ WorldBegin \/ WorldEnd
  \/ AttributeBegin \/ AttributeEnd
  \/ TransformBegin \/ TransformEnd
  \/ ObjectBegin \/ ObjectEnd
  \/ EndOfFile

SpecScope == Init /\ [][NextScope]_vars

\* inputs made of attribute scopes, materials, area lights and shapes
NextMaterial ==
  \/ AttributeBegin \/ AttributeEnd
  \/ Material \/ MakeNamedMaterial \/ NamedMaterial
  \/ AreaLightSource
  \/ Shape

SpecMaterial == Init /\ [][NextMaterial]_vars

\* inputs made of object groups, instances, shapes, transforms and materials
NextObject ==
  \/ ObjectBegin \/ ObjectEnd \/ ObjectInstance
  \/ ConcatTransform
  \/ MakeNamedMaterial
  \/ Shape

SpecObject == Init /\ [][NextObject]_vars

\* inputs spread over included files, with statements that fail
NextInclude ==
  \/ Include
  \/ UnknownCommand
  \/ ConcatTransform
  \/ WorldBegin \/ WorldEnd
  \/ EndOfFile

SpecInclude == Init /\ [][NextInclude]_vars
\* every file ends: the loop always takes its next step
LiveInclude == SpecInclude /\ WF_vars(NextInclude)

\* inputs made of transform statements
NextTransform ==
  \/ ConcatTransform
  \/ ActiveTransform
  \/ TransformBegin \/ TransformEnd

SpecTransform == Init /\ [][NextTransform]_vars

\* inputs made of the statements that set or multiply the transforms
NextSetTransform ==
  \/ Transform
  \/ ConcatTransform
  \/ Scale \/ Translate \/ Rotate
  \/ LookAt
  \/ ActiveTransform

SpecSetTransform == Init /\ [][NextSetTransform]_vars

\* inputs made of named coordinate systems, transforms and transform scopes
NextCoordSys ==
  \/ CoordinateSystem \/ CoordSysTransform
  \/ ConcatTransform
  \/ ActiveTransform
  \/ TransformBegin \/ TransformEnd

SpecCoordSys == Init /\ [][NextCoordSys]_vars

(***************************************************************************)
(* The text of a statement, as the tokens the parsers see once whitespace  *)
(* is skipped: a bare word, a quoted string (the sequence of its words,    *)
(* which one blank separates), a number, "[" and "]".                      *)
(***************************************************************************)
Word(w) == [t |-> "word", s |-> <<w>>, n |-> 0]
Quoted(words) == [t |-> "str", s |-> words, n |-> 0]
Number(n) == [t |-> "num", s |-> <<>>, n |-> n]
Open == [t |-> "[", s |-> <<>>, n |-> 0]
Close == [t |-> "]", s |-> <<>>, n |-> 0]

\* struct pbrt_value, value-initialised
pbrt_value ==
  [type |-> "real", name |-> "", value1f |-> 0, value1i |-> 0, value1b |-> FALSE,
   value1s |-> <<>>, value2f |-> <<0, 0>>, value3f |-> <<0, 0, 0>>,
   vector1f |-> <<>>, vector1i |-> <<>>, vector2f |-> <<>>, vector3f |-> <<>>]

\* what a parser returns: the value and the text left, or the exception
Parsed(v, rest) == [ok |-> TRUE, value |-> v, rest |-> rest, what |-> ""]
Fail(what) == [ok |-> FALSE, value |-> 0, rest |-> <<>>, what |-> what]

\* printf("%g"): six significant digits (numbers of the model have at most seven)
SixDigits == 1000000
format_g(v) == IF v < SixDigits THEN v ELSE ((v + 5) \div 10) * 10

\* how many numbers parse_pbrt_value reads for a float, an int, a vec2f and
\* a vec3f
Arity == [float |-> 1, int |-> 1, vec2f |-> 2, vec3f |-> 3]

\* parse_pbrt_value for a string, a float or an int, a vec2f and a vec3f
parse_pbrt_value(toks, kind) ==
  IF kind = "string"
  THEN IF toks # <<>> /\ toks[1].t = "str" THEN Parsed(toks[1].s, Tail(toks))
       ELSE Fail("cannot parse value")
  ELSE IF \A i \in 1..Arity[kind] : Len(toks) >= i /\ toks[i].t = "num"
  THEN Parsed(IF Arity[kind] = 1 THEN toks[1].n
              ELSE [i \in 1..Arity[kind] |-> toks[i].n],
              SubSeq(toks, Arity[kind] + 1, Len(toks)))
  ELSE Fail("number expected")

\* the loop of parse_pbrt_pvalues after "[": an element is parsed, then the
\* loop ends at "]" or goes on
RECURSIVE pvalues_loop(_, _, _)
RECURSIVE pvalues_next(_, _, _)
pvalues_loop(toks, kind, acc) == pvalues_next(parse_pbrt_value(toks, kind), kind, acc)
pvalues_next(v, kind, acc) ==
  IF ~v.ok THEN v
  ELSE IF v.rest = <<>> THEN Fail("bad pbrt value")
  ELSE IF v.rest[1].t = "]" THEN Parsed(Append(acc, v.value), Tail(v.rest))
  ELSE pvalues_loop(v.rest, kind, Append(acc, v.value))

\* parse_pbrt_pvalues that keeps a lone element in values too
pvalues_array_kept(e) ==
  IF ~e.ok THEN e
  ELSE Parsed([value |-> e.value[1], values |-> e.value], e.rest)

\* parse_pbrt_pvalues: value is the first element, values all of them when
\* there are two or more
pvalues_array(e) ==
  IF ~e.ok THEN e
  ELSE Parsed([value  |-> e.value[1],
               values |-> IF Len(e.value) > 1 THEN e.value ELSE <<>>], e.rest)
pvalues_scalar(v) ==
  IF ~v.ok THEN v ELSE Parsed([value |-> v.value, values |-> <<>>], v.rest)
parse_pbrt_pvalues(toks, kind) ==
  IF toks = <<>> THEN Fail("bad pbrt value")
  ELSE IF toks[1].t # "[" THEN pvalues_scalar(parse_pbrt_value(toks, kind))
  ELSE IF Tail(toks) = <<>> THEN Fail("bad pbrt value")
  ELSE pvalues_array(pvalues_loop(Tail(toks), kind, <<>>))

\* the type words parse_pbrt_params knows, with the pbrt_value_type each is
\* stored as and the kind of its elements
pbrt_types ==
  [float |-> <<"real", "float">>, integer |-> <<"integer", "int">>,
   string |-> <<"string", "string">>, bool |-> <<"boolean", "string">>,
   texture |-> <<"texture", "string">>,
   point |-> <<"point", "vec3f">>, point3 |-> <<"point", "vec3f">>,
   normal |-> <<"normal", "vec3f">>, normal3 |-> <<"normal", "vec3f">>,
   vector |-> <<"vector", "vec3f">>, vector3 |-> <<"vector", "vec3f">>,
   point2 |-> <<"point2", "vec2f">>, vector2 |-> <<"vector2", "vec2f">>,
   color |-> <<"color", "vec3f">>, rgb |-> <<"color", "vec3f">>,
   xyz |-> <<"color", "vec3f">>, spectrum |-> <<"spectrum", "float">>]

\* the fields of a pbrt_value named name that a parameter of a type sets
stored(tag, name, value, values) ==
  LET v == [pbrt_value EXCEPT !.name = name, !.type = tag]
  IN  CASE tag \in {"real", "spectrum"} ->
             [v EXCEPT !.value1f = value, !.vector1f = values]
        [] tag = "integer" -> [v EXCEPT !.value1i = value, !.vector1i = values]
        [] tag \in {"string", "texture"} -> [v EXCEPT !.value1s = value]
        [] tag = "boolean" -> [v EXCEPT !.value1b = (value = <<"true">>)]
        [] tag \in {"point2", "vector2"} ->
             [v EXCEPT !.value2f = value, !.vector2f = values]
        [] OTHER -> [v EXCEPT !.value3f = value, !.vector3f = values]

\* the branch of a type without the test of the string array
typed_value_lenient(type, name, p) ==
  IF ~p.ok THEN p
  ELSE IF type = "xyz" THEN Fail("xyz conversion")
  ELSE Parsed(stored(pbrt_types[type][1], name, p.value.value, p.value.values), p.rest)

\* parse_pbrt_params, after parse_pbrt_pvalues: what the branch of a type
\* does with the elements
typed_value(type, name, p) ==
  IF ~p.ok THEN p
  ELSE IF pbrt_types[type][2] = "string" /\ p.value.values # <<>>
  THEN Fail("do not support pbrt string array")
  ELSE IF type = "xyz" THEN Fail("xyz conversion")
  ELSE Parsed(stored(pbrt_types[type][1], name, p.value.value, p.value.values), p.rest)

\* parse_pbrt_params, spectrum: is_string, and the colour of a file name
is_string(toks) ==
  \/ toks[1].t = "str"
  \/ toks[1].t = "[" /\ Len(toks) > 1 /\ toks[2].t = "str"
\* fs::path(filename).filename() of the file names the inputs use, as the
\* parts its dots separate; extension() is the last part of two or more and
\* replace_extension("") drops it
path_filename(words) ==
  CASE words = <<"SHPS.spd">> -> <<"SHPS", "spd">>
    [] words = <<"Cu.txt">> -> <<"Cu", "txt">>
    [] words = <<"Cu.spd">> -> <<"Cu", "spd">>
    [] words = <<"Cu.eta">> -> <<"Cu", "eta">>
    [] words = <<"spds/Cu.eta.spd">> -> <<"Cu", "eta", "spd">>
    [] words = <<"Au.k.spd">> -> <<"Au", "k", "spd">>
    [] words = <<"Xx.eta.spd">> -> <<"Xx", "eta", "spd">>
    [] OTHER -> words
extension(p) == IF Len(p) > 1 THEN p[Len(p)] ELSE ""
replace_extension(p) == IF Len(p) > 1 THEN SubSeq(p, 1, Len(p) - 1) ELSE p
\* two entries of metal_ior_table, eta first and k second, in hundredths
metal_ior_table ==
  [Au |-> [first |-> <<14, 37, 144>>, second |-> <<398, 239, 160>>],
   Cu |-> [first |-> <<20, 92, 110>>, second |-> <<391, 245, 214>>]]
\* get_pbrt_etak: metal_ior_table.at(name)
get_pbrt_etak(p) ==
  IF Len(p) = 1 /\ p[1] \in DOMAIN metal_ior_table
  THEN Parsed(metal_ior_table[p[1]], <<>>) ELSE Fail(OutOfRange)
etak_color(name, etak, part, rest) ==
  IF ~etak.ok THEN etak
  ELSE Parsed(stored("color", name, etak.value[part], <<>>), rest)
\* the colour of a file whose extension is .spd, p being its name without it
spd_color(name, p, file, rest) ==
  IF p = <<"SHPS">> THEN Parsed(stored("color", name, <<1, 1, 1>>, <<>>), rest)
  ELSE IF extension(p) = "eta"
  THEN etak_color(name, get_pbrt_etak(replace_extension(p)), "first", rest)
  ELSE IF extension(p) = "k"
  THEN etak_color(name, get_pbrt_etak(replace_extension(p)), "second", rest)
  ELSE Fail("unknown spectrum file " \o file)
spectrum_file(name, f) ==
  IF ~f.ok THEN f
  ELSE IF extension(path_filename(f.value)) = "spd"
  THEN spd_color(name, replace_extension(path_filename(f.value)), f.value[1], f.rest)
  ELSE Fail("unsupported spectrum format")

\* one parameter of parse_pbrt_params, named name and declared of type type
parse_pbrt_one(type, name, toks) ==
  IF type \notin DOMAIN pbrt_types THEN Fail("unknown pbrt type")
  ELSE IF type = "spectrum" /\ is_string(toks)
  THEN spectrum_file(name, parse_pbrt_value(toks, "string"))
  ELSE typed_value(type, name, parse_pbrt_pvalues(toks, pbrt_types[type][2]))

\* parse_pbrt_params: the parameters of the text, up to its end.  (The type
\* blackbody, which needs a function of another module, is not among the
\* inputs.)
RECURSIVE parse_pbrt_params(_)
RECURSIVE params_next(_)
params_append(value, more) ==
  IF ~more.ok THEN more ELSE Parsed(<<value>> \o more.value, <<>>)
params_next(one) ==
  IF ~one.ok THEN one ELSE params_append(one.value, parse_pbrt_params(one.rest))
parse_pbrt_params(toks) ==
  IF toks = <<>> THEN Parsed(<<>>, <<>>)
  ELSE IF toks[1].t # "str" THEN Fail("cannot parse value")
  ELSE IF Len(toks[1].s) < 2 THEN Fail("bad type")
  ELSE IF Tail(toks) = <<>> THEN Fail("expected value")
  ELSE params_next(parse_pbrt_one(toks[1].s[1], toks[1].s[2], Tail(toks)))

\* the label write_pbrt_values prints for a type
type_labels ==
  [real |-> "float", integer |-> "integer", boolean |-> "bool", string |-> "string",
   point |-> "point", normal |-> "normal", vector |-> "vector", texture |-> "texture",
   color |-> "rgb", point2 |-> "point2", vector2 |-> "vector2",
   spectrum |-> "spectrum"]

\* the numbers of a list of floats, each printed with %g
Printed(vs) == [i \in DOMAIN vs |-> Number(format_g(vs[i]))]
\* the components of a list of vectors, each printed with %g
RECURSIVE PrintedVectors(_)
PrintedVectors(vs) ==
  IF vs = <<>> THEN <<>> ELSE Printed(vs[1]) \o PrintedVectors(Tail(vs))
Bracketed(toks) == <<Open>> \o toks \o <<Close>>

\* what write_pbrt_values prints for one value
write_pbrt_value(value) ==
  <<Quoted(<<type_labels[value.type], value.name>>)>> \o
  CASE value.type = "real" ->
         IF value.vector1f # <<>> THEN Bracketed(Printed(value.vector1f))
         ELSE <<Number(format_g(value.value1f))>>
    [] value.type = "integer" ->
         IF value.vector1f # <<>>
         THEN Bracketed([i \in DOMAIN value.vector1i |-> Number(value.vector1i[i])])
         ELSE <<Number(value.value1i)>>
    [] value.type = "boolean" ->
         <<Quoted(IF value.value1b THEN <<"true">> ELSE <<"false">>)>>
    [] value.type \in {"string", "texture"} -> <<Quoted(value.value1s)>>
    [] value.type \in {"point", "vector", "normal", "color"} ->
         IF value.vector3f # <<>> THEN Bracketed(PrintedVectors(value.vector3f))
         ELSE Bracketed(Printed(value.value3f))
    [] value.type = "spectrum" -> Bracketed(Printed(value.vector1f))
    [] value.type \in {"point2", "vector2"} ->
         IF value.vector2f # <<>> THEN Bracketed(PrintedVectors(value.vector2f))
         ELSE Bracketed(Printed(<<value.value2f[1], value.value2f[1]>>))

RECURSIVE write_pbrt_values(_)
write_pbrt_values(values) ==
  IF values = <<>> THEN <<>>
  ELSE write_pbrt_value(values[1]) \o write_pbrt_values(Tail(values))

(***************************************************************************)
(* A parameter list is parsed, written back and parsed again.              *)
(***************************************************************************)
\* the numbers the parameters of the input carry
InputNumbers == {1, 2, 1234567}
\* the elements of the input, as tokens, for an element kind
InputElements(kind) ==
  CASE kind \in {"float", "int"} -> {<<Number(n)>> : n \in InputNumbers}
    [] kind = "string" -> {<<Quoted(<<"true">>)>>, <<Quoted(<<"a", "b">>)>>}
    [] kind = "vec2f" -> {<<Number(1), Number(2)>>, <<Number(2), Number(2)>>}
    [] kind = "vec3f" -> {<<Number(1), Number(2), Number(1234567)>>}
\* the file names the spectrum parameters of the input carry
InputSpectrumFiles ==
  {"SHPS.spd", "Cu.txt", "Cu.spd", "Cu.eta", "spds/Cu.eta.spd", "Au.k.spd", "Xx.eta.spd"}
\* one parameter: a bare element, an empty pair of brackets, one element in
\* brackets, or two elements
InputParams ==
  UNION {
    LET head == <<Quoted(<<label, "p">>)>>
        es   == InputElements(pbrt_types[label][2])
    IN  {head \o e : e \in es}
        \cup {head \o Bracketed(<<>>)}
        \cup {head \o Bracketed(e) : e \in es}
        \cup {head \o Bracketed(e1 \o e2) : e1 \in es, e2 \in es}
    : label \in DOMAIN pbrt_types}
  \cup {<<Quoted(<<"spectrum", "p">>), Quoted(<<f>>)>> : f \in InputSpectrumFiles}
  \cup {<<Quoted(<<"spectrum", "p">>)>> \o Bracketed(<<Quoted(<<f>>)>>) :
          f \in InputSpectrumFiles}

InitParams ==
  /\ LoadInit
  /\ loader = "modelio"
  /\ phase = "parse"
  /\ text \in InputParams
  /\ given = <<>>
  /\ decoded = <<>>

\* parse_pbrt_params on the text of the input
ParseParams ==
  /\ phase = "parse"
  /\ LET p == parse_pbrt_params(text)
     IN  IF p.ok THEN phase' = "write" /\ given' = p.value /\ decoded' = decoded
         ELSE phase' = "rejected" /\ given' = given /\ decoded' = p
  /\ UNCHANGED <<text, loadVars>>

\* write_pbrt_values of the values parsed
WriteValues ==
  /\ phase = "write"
  /\ text' = write_pbrt_values(given)
  /\ phase' = "read"
  /\ UNCHANGED <<given, decoded, loadVars>>

\* parse_pbrt_params on the text written
ReparseParams ==
  /\ phase = "read"
  /\ decoded' = parse_pbrt_params(text)
  /\ phase' = "done"
  /\ UNCHANGED <<given, text, loadVars>>

NextParams == ParseParams \/ WriteValues \/ ReparseParams

SpecParams == InitParams /\ [][NextParams]_vars

(***************************************************************************)
(* Statements written and read back: write_pbrt_command and                *)
(* read_pbrt_command.                                                      *)
(***************************************************************************)
\* the characters of a quoted string from its words, and a name as a
\* quoted string
RECURSIVE Text(_)
Text(words) ==
  IF words = <<>> THEN ""
  ELSE IF Len(words) = 1 THEN words[1]
  ELSE words[1] \o " " \o Text(Tail(words))

\* the names and types given to the writer
CommandNames == {"a", "b"}
CommandTypes == {"t", "u"}
\* the name of a medium interface, as read_pbrt_command builds it
Interface(interior, exterior) == interior \o "####" \o exterior
\* write_pbrt_command, medium_interface: the name split at its '#'s
SplitInterface(name) ==
  CHOOSE p \in CommandNames \X CommandNames : Interface(p[1], p[2]) = name

\* the kinds of pbrt_command_ with the keyword write_pbrt_command prints
\* and the arguments it prints after it
written_commands ==
  [world_begin |-> <<"WorldBegin", "none">>,
   world_end |-> <<"WorldEnd", "none">>,
   attribute_begin |-> <<"AttributeBegin", "none">>,
   attribute_end |-> <<"AttributeEnd", "none">>,
   transform_begin |-> <<"TransformBegin", "none">>,
   transform_end |-> <<"TransformEnd", "none">>,
   object_begin |-> <<"ObjectBegin", "name">>,
   object_end |-> <<"ObjectEnd", "none">>,
   object_instance |-> <<"ObjectInstance", "name">>,
   sampler |-> <<"Sampler", "type">>,
   integrator |-> <<"Integrator", "type">>,
   accelerator |-> <<"Accelerator", "type">>,
   film |-> <<"Film", "type">>,
   filter |-> <<"Filter", "type">>,
   camera |-> <<"Camera", "type">>,
   shape |-> <<"Shape", "type">>,
   light |-> <<"LightSource", "type">>,
   material |-> <<"Material", "type">>,
   arealight |-> <<"AreaLightSource", "type">>,
   named_texture |-> <<"Texture", "texture">>,
   named_medium |-> <<"MakeNamedMedium", "named">>,
   named_material |-> <<"MakeNamedMaterial", "named">>,
   include |-> <<"Include", "name">>,
   reverse_orientation |-> <<"ReverseOrientation", "none">>,
   set_transform |-> <<"Transform", "matrix">>,
   concat_transform |-> <<"ConcatTransform", "matrix">>,
   lookat_transform |-> <<"LookAt", "lookat">>,
   use_material |-> <<"NamedMaterial", "name">>,
   medium_interface |-> <<"MediumInterface", "interface">>,
   active_transform |-> <<"ActiveTransform", "name">>,
   coordinate_system_set |-> <<"CoordinateSystem", "name">>,
   coordinate_system_transform |-> <<"CoordinateSysTransform", "name">>]

\* the keywords read_pbrt_command knows, with the kind each is decoded as
\* and the arguments it parses
read_commands ==
  [WorldBegin |-> <<"world_begin", "none">>,
   WorldEnd |-> <<"world_end", "none">>,
   AttributeBegin |-> <<"attribute_begin", "none">>,
   AttributeEnd |-> <<"attribute_end", "none">>,
   TransformBegin |-> <<"transform_begin", "none">>,
   TransformEnd |-> <<"transform_end", "none">>,
   ObjectBegin |-> <<"object_begin", "name">>,
   ObjectEnd |-> <<"object_end", "none">>,
   ObjectInstance |-> <<"object_instance", "name">>,
   ActiveTransform |-> <<"active_transform", "word">>,
   Transform |-> <<"set_transform", "matrix">>,
   ConcatTransform |-> <<"concat_transform", "matrix">>,
   Scale |-> <<"concat_transform", "vec3f">>,
   Translate |-> <<"concat_transform", "vec3f">>,
   Rotate |-> <<"concat_transform", "vec4f">>,
   LookAt |-> <<"lookat_transform", "lookat">>,
   ReverseOrientation |-> <<"reverse_orientation", "none">>,
   CoordinateSystem |-> <<"coordinate_system_set", "name">>,
   CoordSysTransform |-> <<"coordinate_system_transform", "name">>,
   Integrator |-> <<"integrator", "type">>,
   Sampler |-> <<"sampler", "type">>,
   PixelFilter |-> <<"filter", "type">>,
   Film |-> <<"film", "type">>,
   Accelerator |-> <<"accelerator", "type">>,
   Camera |-> <<"camera", "type">>,
   Texture |-> <<"named_texture", "texture">>,
   Material |-> <<"material", "type">>,
   MakeNamedMaterial |-> <<"named_material", "named">>,
   NamedMaterial |-> <<"use_material", "name">>,
   Shape |-> <<"shape", "type">>,
   AreaLightSource |-> <<"arealight", "type">>,
   LightSource |-> <<"light", "type">>,
   MakeNamedMedium |-> <<"named_medium", "named">>,
   MediumInterface |-> <<"medium_interface", "interface">>,
   Include |-> <<"include", "name">>]

\* the numbers write_pbrt_command prints for a frame <<x, y, z, o>>
MatrixNumbers(xform) ==
  Printed(xform[1]) \o <<Number(0)>> \o Printed(xform[2]) \o <<Number(0)>> \o
  Printed(xform[3]) \o <<Number(0)>> \o Printed(xform[4]) \o <<Number(1)>>

\* write_pbrt_command: the text of one statement
write_pbrt_command(command, name, type, xform, values, texture_float) ==
  LET keyword == written_commands[command][1]
      form    == written_commands[command][2]
  IN  <<Word(keyword)>> \o
      CASE form = "none" -> <<>>
        [] form = "name" -> <<Quoted(<<name>>)>>
        [] form = "type" -> <<Quoted(<<type>>)>> \o write_pbrt_values(values)
        [] form = "texture" ->
             <<Quoted(<<name>>), Quoted(<<IF texture_float THEN "float" ELSE "rgb">>),
               Quoted(<<type>>)>> \o write_pbrt_values(values)
        [] form = "named" ->
             <<Quoted(<<name>>), Quoted(<<"string", "type">>), Quoted(<<type>>)>>
             \o write_pbrt_values(values)
        [] form = "matrix" -> MatrixNumbers(xform)
        [] form = "lookat" -> Printed(xform[1]) \o Printed(xform[2]) \o Printed(xform[3])
        [] form = "interface" ->
             <<Quoted(<<SplitInterface(name)[1]>>), Quoted(<<SplitInterface(name)[2]>>)>>

\* parse_pbrt_command: a word of letters
parse_pbrt_command(toks) ==
  IF toks # <<>> /\ toks[1].t = "word" THEN Parsed(toks[1].s[1], Tail(toks))
  ELSE Fail("bad command")

\* the largest power of ten that is at most n: the weight of the first digit
RECURSIVE Magnitude(_)
Magnitude(n) == IF n < 10 THEN 1 ELSE 10 * Magnitude(n \div 10)

\* str.remove_prefix(1) on a view that is not empty: one character goes.  A
\* bracket is the whole token, a number loses its first digit, and a word or
\* a quoted string is left cut (no parser of the model accepts a cut token)
Cut(tok) == [t |-> "cut", s |-> tok.s, n |-> 0]
remove_prefix(toks) ==
  IF toks[1].t \in {"[", "]"} THEN Tail(toks)
  ELSE IF toks[1].t = "num"
  THEN IF toks[1].n < 10 THEN Tail(toks)
       ELSE <<Number(toks[1].n % Magnitude(toks[1].n))>> \o Tail(toks)
  ELSE <<Cut(toks[1])>> \o Tail(toks)

\* str.remove_prefix(1) on an empty view has no defined result: the caller
\* draws the outcome
EmptyView == "remove_prefix of an empty view"
Undefined(v) == [ok |-> FALSE, value |-> v, rest |-> <<>>, what |-> EmptyView]

\* parse_pbrt_param for a string: the value with optional brackets
closing_bracket(parens, v) ==
  IF ~v.ok THEN v
  ELSE IF ~parens THEN Parsed(Text(v.value), v.rest)
  ELSE IF v.rest # <<>> /\ v.rest[1].t = "[" THEN Fail("bad pbrt param")
  ELSE IF v.rest = <<>> THEN Undefined(Text(v.value))
  ELSE Parsed(Text(v.value), remove_prefix(v.rest))
parse_pbrt_param(toks) ==
  IF toks # <<>> /\ toks[1].t = "["
  THEN closing_bracket(TRUE, parse_pbrt_value(Tail(toks), "string"))
  ELSE closing_bracket(FALSE, parse_pbrt_value(toks, "string"))

\* parse_pbrt_value for count numbers in a row (vec3f, vec4f, mat4f)
RECURSIVE parse_pbrt_numbers(_, _)
RECURSIVE numbers_next(_, _)
numbers_append(value, more) ==
  IF ~more.ok THEN more ELSE Parsed(<<value>> \o more.value, more.rest)
numbers_next(v, count) ==
  IF ~v.ok THEN v ELSE numbers_append(v.value, parse_pbrt_numbers(v.rest, count - 1))
parse_pbrt_numbers(toks, count) ==
  IF count = 0 THEN Parsed(<<>>, toks)
  ELSE numbers_next(parse_pbrt_value(toks, "float"), count)

\* the type of a MakeNamed statement: the last value named "type"
RECURSIVE TypeOf(_, _)
TypeOf(values, type) ==
  IF values = <<>> THEN type
  ELSE TypeOf(Tail(values),
              IF values[1].name = "type" THEN Text(values[1].value1s) ELSE type)

\* what read_pbrt_command returns: the kind with the caller's name and type
\* as the statement leaves them, or the exception
Command(kind, name, type) ==
  [ok |-> TRUE, command |-> kind, name |-> name, type |-> type, what |-> ""]
Thrown(what) == [ok |-> FALSE, command |-> "", name |-> "", type |-> "", what |-> what]

\* read_pbrt_command, the branches by what follows each argument parsed
with_name(kind, type, p) ==
  IF p.ok THEN Command(kind, p.value, type) ELSE Thrown(p.what)
with_values(command, values) ==
  IF values.ok THEN command ELSE Thrown(values.what)
with_type(kind, name, p) ==
  IF ~p.ok THEN Thrown(p.what)
  ELSE with_values(Command(kind, name, p.value), parse_pbrt_params(p.rest))
with_comptype(kind, name, p) ==
  IF ~p.ok THEN Thrown(p.what) ELSE with_type(kind, name, parse_pbrt_param(p.rest))
texture_arguments(kind, p) ==
  IF ~p.ok THEN Thrown(p.what)
  ELSE with_comptype(kind, p.value, parse_pbrt_param(p.rest))
named_type(kind, name, values) ==
  IF ~values.ok THEN Thrown(values.what)
  ELSE Command(kind, name, TypeOf(values.value, ""))
named_arguments(kind, p) ==
  IF ~p.ok THEN Thrown(p.what)
  ELSE named_type(kind, p.value, parse_pbrt_params(p.rest))
with_exterior(kind, type, interior, p) ==
  IF ~p.ok THEN Thrown(p.what)
  ELSE Command(kind, Interface(interior, p.value), type)
interface_arguments(kind, type, p) ==
  IF ~p.ok THEN Thrown(p.what)
  ELSE with_exterior(kind, type, p.value, parse_pbrt_param(p.rest))
with_numbers(kind, name, type, p) ==
  IF p.ok THEN Command(kind, name, type) ELSE Thrown(p.what)
numbers_argument(str, count) ==
  parse_pbrt_numbers(IF str # <<>> /\ str[1].t = "[" THEN Tail(str) ELSE str, count)

\* how many numbers each kind of numeric argument holds
Sizes == [matrix |-> 16, lookat |-> 9, vec3f |-> 3, vec4f |-> 4]

\* read_pbrt_command after the keyword: the arguments of the statement
read_arguments(kind, form, str, name, type) ==
  CASE form = "none" -> Command(kind, name, type)
    [] form = "name" -> with_name(kind, type, parse_pbrt_param(str))
    [] form = "word" -> with_name(kind, type, parse_pbrt_command(str))
    [] form = "type" -> with_type(kind, name, parse_pbrt_param(str))
    [] form = "texture" -> texture_arguments(kind, parse_pbrt_param(str))
    [] form = "named" -> named_arguments(kind, parse_pbrt_param(str))
    [] form = "interface" -> interface_arguments(kind, type, parse_pbrt_param(str))
    [] OTHER -> with_numbers(kind, name, type, numbers_argument(str, Sizes[form]))

\* read_pbrt_command after parse_pbrt_command: the chain on cmd
read_keyword(cmd, name, type) ==
  IF ~cmd.ok THEN Thrown(cmd.what)
  ELSE IF cmd.value \notin DOMAIN read_commands
  THEN Thrown("unknown command " \o cmd.value)
  ELSE read_arguments(read_commands[cmd.value][1], read_commands[cmd.value][2],
                      cmd.rest, name, type)

\* read_pbrt_command on the text of one statement; name and type are the
\* caller's variables, written only by the statements that carry them
read_pbrt_command(toks, name, type) == read_keyword(parse_pbrt_command(toks), name, type)

\* the statements given to the writer: every kind, with a name and a type
\* where write_pbrt_command prints them, a frame and a parameter list
InputValues == {<<>>, <<[pbrt_value EXCEPT !.name = "fov", !.value1f = 2]>>}
InputXform == <<<<1, 0, 0>>, <<0, 1, 0>>, <<0, 0, 1>>, <<1, 2, 1>>>>
Carries(command, what) ==
  LET form == written_commands[command][2]
  IN  IF what = "name" THEN form \in {"name", "texture", "named", "interface"}
      ELSE form \in {"type", "texture", "named"}
InputCommands ==
  {c \in [command : DOMAIN written_commands,
          name : {""} \cup CommandNames
                 \cup {Interface(p[1], p[2]) : p \in CommandNames \X CommandNames},
          type : {""} \cup CommandTypes,
          xform : {InputXform}, values : InputValues, texture_float : BOOLEAN] :
     /\ c.name \in (IF ~Carries(c.command, "name") THEN {""}
                    ELSE IF written_commands[c.command][2] = "interface"
                    THEN {Interface(p[1], p[2]) : p \in CommandNames \X CommandNames}
                    ELSE CommandNames)
     /\ c.type \in (IF Carries(c.command, "type") THEN CommandTypes ELSE {""})
     /\ (written_commands[c.command][2] \notin {"type", "texture", "named"}
           => c.values = <<>>)
     /\ (c.command # "named_texture" => ~c.texture_float)}

InitCommands ==
  /\ LoadInit
  /\ loader = "modelio"
  /\ phase = "emit"
  /\ given \in InputCommands
  /\ text = <<>>
  /\ decoded = <<>>

\* write_pbrt_command on the statement given
WriteCommand ==
  /\ phase = "emit"
  /\ text' = write_pbrt_command(given.command, given.name, given.type, given.xform,
                                given.values, given.texture_float)
  /\ phase' = "accept"
  /\ UNCHANGED <<given, decoded, loadVars>>

\* read_pbrt_command on the statement written, by a caller whose name and
\* type are empty
ReadCommand ==
  /\ phase = "accept"
  /\ decoded' = read_pbrt_command(text, "", "")
  /\ phase' = "decoded"
  /\ UNCHANGED <<given, text, loadVars>>

NextCommands == WriteCommand \/ ReadCommand

SpecCommands == InitCommands /\ [][NextCommands]_vars

(***************************************************************************)
(* parse_pbrt_param on its own: one argument of a statement, with what     *)
(* follows it in the statement.                                            *)
(***************************************************************************)
MaxFollowers == 2
ArgumentValues == {<<Quoted(<<"a">>)>>, <<Quoted(<<"a", "b">>)>>, <<Number(1)>>}
ArgumentFollowers ==
  {Close, Open, Number(1), Number(12), Quoted(<<"float", "radius">>), Word("Shape")}
RECURSIVE Followers(_)
Followers(n) ==
  IF n = 0 THEN {<<>>}
  ELSE Followers(n - 1) \cup
       {<<t>> \o f : t \in ArgumentFollowers, f \in {g \in Followers(n - 1) : Len(g) = n - 1}}
InputArguments ==
  {open \o v \o f : open \in {<<>>, <<Open>>}, v \in ArgumentValues,
                    f \in Followers(MaxFollowers)}

\* what the statement holds after a view went past its end: anything
Overrun == {<<>>, <<Close>>, <<Number(1)>>}

InitArgument ==
  /\ LoadInit
  /\ loader = "modelio"
  /\ phase = "argument"
  /\ text \in InputArguments
  /\ given = <<>>
  /\ decoded = <<>>

\* parse_pbrt_param on the text; where the code's behaviour is undefined the
\* call may crash or return with any remainder
ParseArgument ==
  /\ phase = "argument"
  /\ LET p == parse_pbrt_param(text)
     IN  IF p.what = EmptyView
         THEN \/ phase' = "crashed" /\ decoded' = decoded
              \/ \E rest \in Overrun :
                   phase' = "parsed" /\ decoded' = Parsed(p.value, rest)
         ELSE IF p.ok THEN phase' = "parsed" /\ decoded' = p
         ELSE phase' = "rejected" /\ decoded' = p
  /\ UNCHANGED <<given, text, loadVars>>

NextArgument == ParseArgument

SpecArgument == InitArgument /\ [][NextArgument]_vars

(***************************************************************************)
(* save_pbrt: the statements written for a scene.  A statement is the      *)
(* keyword write_pbrt_command prints with the name and type it is given;   *)
(* the parameter lists are left out.                                       *)
(***************************************************************************)
MaxMaterials == 2
MaxInstances == 2

\* a uri, and fs::path(uri).stem()
Uri(dir, stem, ext) == [dir |-> dir, stem |-> stem, extension |-> ext]
stem(uri) == uri.stem

Written(command, name, type) ==
  [keyword |-> written_commands[command][1], name |-> name, type |-> type]

\* the scenes saved: materials with a uri and an emission, instances of one
\* shape each with the index of a material, one texture or none
InputMaterials ==
  [uri : {Uri("materials", s, "yaml") : s \in MaterialNames},
   emission : {<<0, 0, 0>>, <<1, 1, 1>>}]
InputScenes ==
  UNION {
    [materials : [1..m -> InputMaterials],
     instances : UNION {[1..n -> [shape : {1}, material : 1..m]] : n \in 0..MaxInstances},
     textures : {<<>>, <<[uri |-> Uri("textures", "t", "png")]>>}]
    : m \in 1..MaxMaterials}

\* save_pbrt: camera and settings, up to WorldBegin
header_statements ==
  <<Written("lookat_transform", "", ""), Written("camera", "", "perspective"),
    Written("sampler", "", "random"), Written("integrator", "", "path"),
    Written("film", "", "image"), Written("world_begin", "", "")>>

\* save_pbrt: convert textures, convert materials
texture_statements(scene) ==
  [i \in DOMAIN scene.textures |->
     Written("named_texture", stem(scene.textures[i].uri), "imagemap")]
material_statements(scene) ==
  [i \in DOMAIN scene.materials |->
     Written("named_material", stem(scene.materials[i].uri), "uber")]

\* an instance written with its material left to the scope around it
instance_statements_inherited(scene, instance) ==
  LET material == scene.materials[instance.material]
  IN  <<Written("attribute_begin", "", ""), Written("transform_begin", "", ""),
        Written("set_transform", "", "")>>
      \o (IF material.emission # <<0, 0, 0>>
          THEN <<Written("arealight", "", "diffuse")>> ELSE <<>>)
      \o <<Written("shape", "", "plymesh"), Written("transform_end", "", ""),
           Written("attribute_end", "", "")>>

\* save_pbrt: convert instances, the body of the loop
instance_statements(scene, instance) ==
  LET material == scene.materials[instance.material]
  IN  <<Written("attribute_begin", "", ""), Written("transform_begin", "", ""),
        Written("set_transform", "", ""),
        Written("use_material", stem(material.uri), "")>>
      \o (IF material.emission # <<0, 0, 0>>
          THEN <<Written("arealight", "", "diffuse")>> ELSE <<>>)
      \o <<Written("shape", "", "plymesh"), Written("transform_end", "", ""),
           Written("attribute_end", "", "")>>

RECURSIVE instances_statements(_, _)
instances_statements(scene, instances) ==
  IF instances = <<>> THEN <<>>
  ELSE instance_statements(scene, instances[1])
       \o instances_statements(scene, Tail(instances))

save_pbrt_unclosed(scene) ==
  header_statements \o texture_statements(scene) \o material_statements(scene)
  \o instances_statements(scene, scene.instances)
save_pbrt(scene) ==
  header_statements \o texture_statements(scene) \o material_statements(scene)
  \o instances_statements(scene, scene.instances) \o <<Written("world_end", "", "")>>

InitSave ==
  /\ LoadInit
  /\ loader = "sceneio"
  /\ phase = "save"
  /\ given \in InputScenes
  /\ text = <<>>
  /\ decoded = <<>>

SavePbrt ==
  /\ phase = "save"
  /\ text' = save_pbrt(given)
  /\ phase' = "saved"
  /\ UNCHANGED <<given, decoded, loadVars>>

NextSave == SavePbrt

SpecSave == InitSave /\ [][NextSave]_vars

(***************************************************************************)
(* save_pbrt_scene: the statement file, then the shapes one by one, then   *)
(* the textures.  What is given is how each file fares when it is          *)
(* written: whether the statement file can be opened, and per shape,       *)
(* texture and volume texture whether it can be saved; and the             *)
(* save_params.  Nothing asks to cancel (params.cancel is null), and the   *)
(* error string is empty at the call.                                      *)
(***************************************************************************)
MaxShapes == 2
MaxTextures == 1
Outcomes(n) == UNION {[1..k -> BOOLEAN] : k \in 0..n}
InputSaves ==
  [file : BOOLEAN, shapes : Outcomes(MaxShapes), textures : Outcomes(MaxTextures),
   voltextures : Outcomes(MaxTextures), notextures : BOOLEAN, noparallel : BOOLEAN]

AllSaved(outcomes) == \A i \in DOMAIN outcomes : outcomes[i]
NoneSaved(outcomes) == \A i \in DOMAIN outcomes : ~outcomes[i]

\* what save_pbrt_scene returns, with the message of set_sceneio_error
SaveResult(ok, msg) == [ok |-> ok, msg |-> msg]

\* save_textures: its return value.  One after the other, the first texture
\* or volume texture that fails ends it with false; in parallel an error is
\* set for a texture that fails and for a volume texture that is saved, and
\* the result is whether the error stayed empty
save_textures(scene, params) ==
  IF params.notextures THEN TRUE
  ELSE IF params.noparallel
  THEN AllSaved(scene.textures) /\ AllSaved(scene.voltextures)
  ELSE AllSaved(scene.textures) /\ NoneSaved(scene.voltextures)

InitSaveScene ==
  /\ LoadInit
  /\ loader = "sceneio"
  /\ phase = "save_pbrt"
  /\ given \in InputSaves
  /\ text = <<>>
  /\ decoded = <<>>

\* save_pbrt_scene, "save json": save_pbrt fails when the file cannot be opened
SaveStatementFile ==
  /\ phase = "save_pbrt"
  /\ IF given.file
     THEN phase' = "shapes" /\ decoded' = decoded
     ELSE phase' = "returned" /\ decoded' = SaveResult(FALSE, "file not found")
  /\ UNCHANGED <<given, text, loadVars>>

\* save_pbrt_scene, "save meshes": one turn of the loop; text holds the
\* shapes save_shape was called for
SaveShape ==
  /\ phase = "shapes"
  /\ Len(text) < Len(given.shapes)
  /\ text' = Append(text, Len(text) + 1)
  /\ IF given.shapes[Len(text) + 1]
     THEN phase' = "returned" /\ decoded' = SaveResult(FALSE, "error in shape")
     ELSE phase' = phase /\ decoded' = decoded
  /\ UNCHANGED <<given, loadVars>>

\* save_pbrt_scene, "save textures", after the loop over the shapes
SaveTextures ==
  /\ phase = "shapes"
  /\ Len(text) = Len(given.shapes)
  /\ phase' = "returned"
  /\ decoded' = IF save_textures(given, given) THEN SaveResult(TRUE, "")
                ELSE SaveResult(FALSE, "error in texture")
  /\ UNCHANGED <<given, text, loadVars>>

NextSaveScene == SaveStatementFile \/ SaveShape \/ SaveTextures

SpecSaveScene == InitSaveScene /\ [][NextSaveScene]_vars

(***************************************************************************)
(* The command reader: read_pbrt_cmdline on the lines of a file.  A line   *)
(* is its characters without the newline, as runs of one class of          *)
(* character: "K" an uppercase letter, "c" any other visible character     *)
(* that is not special, " " a blank or tab, "#" and the double quote.      *)
(***************************************************************************)
\* lines in a file
MaxLines == 3
\* char buffer[4096] of read_pbrt_cmdline
BufferSize == 4096

Run(c, n) == [c |-> c, n |-> n]
RECURSIVE Length(_)
Length(str) == IF str = <<>> THEN 0 ELSE str[1].n + Length(Tail(str))
\* the first n characters of a string, and the string without them
RECURSIVE Take(_, _)
Take(str, n) ==
  IF n = 0 \/ str = <<>> THEN <<>>
  ELSE IF str[1].n <= n THEN <<str[1]>> \o Take(Tail(str), n - str[1].n)
  ELSE <<Run(str[1].c, n)>>
RECURSIVE Drop(_, _)
Drop(str, n) ==
  IF n = 0 \/ str = <<>> THEN str
  ELSE IF str[1].n <= n THEN Drop(Tail(str), n - str[1].n)
  ELSE <<Run(str[1].c, str[1].n - n)>> \o Tail(str)

\* a position in the file (ftell, fseek): a line and the characters of it
\* already read
Position(line, offset) == [line |-> line, offset |-> offset]

\* fgets(buffer, size, fs) at a position before the end of the file: at
\* most size - 1 characters, up to and including the newline
fgets_rest(rest, from, size) ==
  IF Length(rest) + 1 <= size - 1
  THEN [chars |-> rest, from |-> from, next |-> Position(from.line + 1, 0)]
  ELSE [chars |-> Take(rest, size - 1), from |-> from,
        next |-> Position(from.line, from.offset + size - 1)]
fgets(file, from, size) == fgets_rest(Drop(file[from.line], from.offset), from, size)

\* remove_pbrt_comment: the text up to the first '#' outside a string
RECURSIVE uncommented(_, _)
uncommented(str, in_string) ==
  IF str = <<>> THEN <<>>
  ELSE IF str[1].c = "#" /\ ~in_string THEN <<>>
  ELSE <<str[1]>> \o uncommented(Tail(str),
                                 IF str[1].c = "\"" THEN in_string # (str[1].n % 2 = 1)
                                 ELSE in_string)
remove_pbrt_comment(str) == uncommented(str, FALSE)

RECURSIVE skip_whitespace(_)
skip_whitespace(str) ==
  IF str # <<>> /\ str[1].c = " " THEN skip_whitespace(Tail(str)) ELSE str

\* what is appended to cmd for a line read, with the position it was read at
Piece(from, line) == [line |-> from.line, offset |-> from.offset, chars |-> line]

\* what read_pbrt_cmdline leaves: its return value or exception, cmd, the
\* position of the stream and fs.linenum
Returned(found, cmd, pos, linenum) ==
  [found |-> found, what |-> "", cmd |-> cmd, pos |-> pos, linenum |-> linenum]
ThrownAt(what, pos, linenum) ==
  [found |-> FALSE, what |-> what, cmd |-> <<>>, pos |-> pos, linenum |-> linenum]

\* the loop of read_pbrt_cmdline: cur is the position of the stream, pos
\* the position saved after the last line appended
RECURSIVE cmdline_loop(_, _, _, _, _, _)
RECURSIVE cmdline_line(_, _, _, _, _, _, _)
cmdline_loop(file, cur, pos, found, cmd, linenum) ==
  IF cur.line > Len(file) THEN Returned(found, cmd, cur, linenum)
  ELSE cmdline_line(file, fgets(file, cur, BufferSize),
                    skip_whitespace(remove_pbrt_comment(fgets(file, cur, BufferSize).chars)),
                    pos, found, cmd, linenum + 1)
cmdline_line(file, got, line, pos, found, cmd, linenum) ==
  IF line = <<>> THEN cmdline_loop(file, got.next, pos, found, cmd, linenum)
  ELSE IF line[1].c = "K" /\ found THEN Returned(TRUE, cmd, pos, linenum)
  ELSE IF line[1].c # "K" /\ ~found
  THEN ThrownAt("bad pbrt command", got.next, linenum)
  ELSE cmdline_loop(file, got.next, got.next, TRUE,
                    Append(cmd, Piece(got.from, line)), linenum)

read_pbrt_cmdline(file, pos, linenum) ==
  cmdline_loop(file, pos, pos, FALSE, <<>>, linenum)

\* the lines of the files read: blank, comment, keyword lines, continuation
\* lines with a '#' inside a string, and lines longer than the buffer
InputLines ==
  { <<>>,
    <<Run("#", 1), Run(" ", 1), Run("K", 1), Run("c", 2)>>,
    <<Run("K", 1), Run("c", 4)>>,
    <<Run(" ", 2), Run("K", 1), Run("c", 2), Run(" ", 1), Run("#", 1), Run("K", 1)>>,
    <<Run(" ", 1), Run("\"", 1), Run("c", 2), Run("#", 1), Run("\"", 1), Run(" ", 1),
      Run("c", 1)>>,
    <<Run("c", 3)>>,
    <<Run("K", 1), Run("c", BufferSize - 2), Run("K", 1), Run("c", 1)>>,
    <<Run("c", BufferSize + 3)>>,
    <<Run("#", 1), Run("c", BufferSize - 2), Run("K", 1)>> }
InputFiles == UNION {[1..n -> InputLines] : n \in 1..MaxLines}

InitReader ==
  /\ LoadInit
  /\ loader = "modelio"
  /\ phase = "cmdline"
  /\ given \in InputFiles
  /\ text = <<>>
  /\ decoded = Returned(TRUE, <<>>, Position(1, 0), 0)

\* one call of read_pbrt_cmdline by the loop that reads the file; text is
\* the statements returned so far, decoded what the last call left
ReadCmdline ==
  /\ phase = "cmdline"
  /\ decoded' = read_pbrt_cmdline(given, decoded.pos, decoded.linenum)
  /\ text' = IF decoded'.found THEN Append(text, decoded'.cmd) ELSE text
  /\ phase' = IF decoded'.found THEN "cmdline"
              ELSE IF decoded'.what = "" THEN "end" ELSE "thrown"
  /\ UNCHANGED <<given, loadVars>>

NextReader == ReadCmdline

SpecReader == InitReader /\ [][NextReader]_vars

(***************************************************************************)
(* The nesting of an input, read off the statements alone.                 *)
(***************************************************************************)
Begins == {"WorldBegin", "AttributeBegin", "TransformBegin", "ObjectBegin"}
Ends == {"WorldEnd", "AttributeEnd", "TransformEnd", "ObjectEnd"}
BeginOf(c) ==
  CASE c = "WorldEnd" -> "WorldBegin"
    [] c = "AttributeEnd" -> "AttributeBegin"
    [] c = "TransformEnd" -> "TransformBegin"
    [] c = "ObjectEnd" -> "ObjectBegin"
    [] OTHER -> ""
Misnested == <<"misnested">>
Front(s) == SubSeq(s, 1, Len(s) - 1)
Last(s) == s[Len(s)]
\* the *Begin statements of s still open after s, or Misnested when some
\* *End of s does not close the innermost open *Begin of its own kind
RECURSIVE OpenBegins(_)
OpenBegins(s) ==
  IF s = <<>> THEN <<>>
  ELSE LET o == OpenBegins(Front(s))
           c == Last(s).cmd
       IN  IF o = Misnested THEN Misnested
           ELSE IF c \in Begins THEN Append(o, c)
           ELSE IF c \in Ends
                THEN IF o # <<>> /\ Last(o) = BeginOf(c) THEN Front(o) ELSE Misnested
           ELSE o
Nested(s) == OpenBegins(s) # Misnested
Balanced(s) == OpenBegins(s) = <<>>
\* every WorldBegin of s is read while no scope is open
WorldOutermost(s) ==
  \A i \in 1..Len(s) :
    s[i].cmd = "WorldBegin" => OpenBegins(SubSeq(s, 1, i - 1)) = <<>>
ScopeErrors == {"bad stack", "bad pbrt stack"}
\* the step reads a statement with command c
Reads(c) == input' # input /\ Last(input').cmd = c

(***************************************************************************)
(* C1: in both loaders the graphics-state stack holds at least one record  *)
(* in every state reached while statements are processed.                  *)
(***************************************************************************)
C1_StackNeverEmpty == status \in {"run", "done"} => Len(stack) >= 1

(***************************************************************************)
(* C2: an AttributeEnd, TransformEnd or ObjectEnd processed while the      *)
(* stack holds only the initial record makes the parse fail; it never pops *)
(* the initial record and lets the parse continue.                         *)
(***************************************************************************)
C2_StrayEndFails ==
  [][(/\ input' # input
      /\ Last(input').cmd \in {"AttributeEnd", "TransformEnd", "ObjectEnd"}
      /\ Len(stack) = 1)
     => (status' = "error" /\ error' \in ScopeErrors)]_vars

(***************************************************************************)
(* C3: WorldEnd pops one record and the parse fails with a scope error     *)
(* unless exactly one record remains after the pop (that is, unless two    *)
(* records were on the stack); after a single WorldBegin the second of two *)
(* WorldEnd statements fails.                                              *)
(***************************************************************************)
C3_WorldEndBalance ==
  /\ [][Reads("WorldEnd") =>
         /\ stack # <<>> => stack' = PopBack(stack)
         /\ status' = IF Len(stack) = 2 THEN "run" ELSE "error"
         /\ status' = "error" => error' \in ScopeErrors]_vars
  /\ []((/\ Len(input) = 3
          /\ input[1].cmd = "WorldBegin"
          /\ input[2].cmd = "WorldEnd"
          /\ input[3].cmd = "WorldEnd") => status = "error")

C3_SecondWorldEndFailed ==
  /\ Len(input) = 3
  /\ input[1].cmd = "WorldBegin"
  /\ input[2].cmd = "WorldEnd"
  /\ input[3].cmd = "WorldEnd"
  /\ status = "error"
  /\ error = "bad stack"
  /\ stack = <<>>

(***************************************************************************)
(* C4, as claimed: for every input in which each *End closes a properly    *)
(* nested *Begin of its kind, the parse raises no scope error, and the     *)
(* depth is 1 when a balanced input is exhausted.                          *)
(***************************************************************************)
C4_NestedInputBalances ==
  Nested(input) =>
    /\ ~(status = "error" /\ error \in ScopeErrors)
    /\ (status = "done" /\ Balanced(input)) => Len(stack) = 1

(***************************************************************************)
(* C4, amended: the same for every such input whose WorldBegin statements  *)
(* are read while no scope is open; the depth is then one more than the    *)
(* number of open scopes at every point, hence 1 when a balanced input is  *)
(* exhausted.                                                              *)
(***************************************************************************)
C4_NestedWorldOutermostBalances ==
  (Nested(input) /\ WorldOutermost(input)) =>
    /\ status \in {"run", "done"}
    /\ Len(stack) = 1 + Len(OpenBegins(input))
    /\ (status = "done" /\ Balanced(input)) => Len(stack) = 1

C4_BalancedInputExhausted ==
  /\ status = "done"
  /\ Len(input) = 4
  /\ input[1].cmd = "WorldBegin"
  /\ input[2].cmd = "ObjectBegin"
  /\ input[3].cmd = "ObjectEnd"
  /\ input[4].cmd = "WorldEnd"
  /\ Len(stack) = 1

(***************************************************************************)
(* C5: a Shape processed after an AttributeEnd is bound to the material    *)
(* name that was current immediately before the matching AttributeBegin,   *)
(* whatever Material, MakeNamedMaterial or NamedMaterial statements were   *)
(* processed inside the scope.  pbrt_model: the name stored in the shape.  *)
(* yocto_scene: the name get_material is called with, and the index the    *)
(* new instance gets is the one cached for that name.                      *)
(***************************************************************************)
C5_ShapeAfterAttributeEnd ==
  [][(/\ Reads("Shape")
      /\ status' = "run"
      /\ closed.kind = "Attribute"
      /\ closed.current)
     => IF loader = "modelio"
        THEN Last(pbrt_shapes').material = closed.material
        ELSE /\ Last(used').material = closed.material
             /\ Last(scene_instances').material = Last(used').index
             /\ ammap'[closed.material \o "_______" \o Last(used').arealight]
                  = Last(used').index]_vars

\* a Shape read right after the AttributeEnd of a scope that set a material
C5_ShapeAfterScopedMaterial ==
  /\ Len(input) = 5
  /\ input[1].cmd = "NamedMaterial" /\ input[1].name = "m1"
  /\ input[2].cmd = "AttributeBegin"
  /\ input[3].cmd = "Material" /\ input[3].type = "matte"
  /\ input[4].cmd = "AttributeEnd"
  /\ input[5].cmd = "Shape"
  /\ status = "run"
  /\ loader = "modelio"
  /\ Last(pbrt_shapes).material = "m1"

(***************************************************************************)
(* C6: a NamedMaterial statement naming a material that no earlier         *)
(* MakeNamedMaterial defined makes the parse fail at that statement.       *)
(***************************************************************************)
C6_UnknownNamedMaterialFails ==
  [][(/\ Reads("NamedMaterial")
      /\ ~\E i \in 1..Len(input) :
            input[i].cmd = "MakeNamedMaterial" /\ input[i].name = Last(input').name)
     => status' = "error"]_vars

(***************************************************************************)
(* C7: in the scene loader any two Shape statements processed with the     *)
(* same current (material name, area-light name) pair reference the same   *)
(* material index, and each distinct pair used by at least one Shape       *)
(* contributes exactly one derived material to scene.materials.            *)
(***************************************************************************)
UsedPairs == {<<used[i].material, used[i].arealight>> : i \in 1..Len(used)}
C7_OneMaterialPerPair ==
  loader = "sceneio" =>
    /\ \A i, j \in 1..Len(used) :
         (used[i].material = used[j].material /\ used[i].arealight = used[j].arealight)
           <=> used[i].index = used[j].index
    /\ \A i \in 1..Len(used) :
         /\ used[i].index \in 0..(Len(scene_materials) - 1)
         /\ scene_materials[used[i].index + 1].emission = amap[used[i].arealight]
         /\ LET uri == scene_materials[used[i].index + 1].uri
            IN  IF amap[used[i].arealight] = 0
                THEN uri = used[i].material
                ELSE \E k \in 0..light_id :
                       uri = used[i].material \o "_arealight_" \o to_string(k)
    /\ Len(scene_materials) = Cardinality(UsedPairs)
    /\ Len(scene_instances) = Len(used)
    /\ \A i \in 1..Len(used) : scene_instances[i].material = used[i].index

\* three shapes, two of them under the same pair
C7_TwoShapesShareAPair ==
  /\ loader = "sceneio"
  /\ status = "run"
  /\ Len(used) = 3
  /\ used[1].arealight # used[2].arealight
  /\ used[2].arealight = used[3].arealight
  /\ used[2].material = used[3].material
  /\ Len(scene_materials) = 2

(***************************************************************************)
(* C8: ObjectInstance "n" adds one instance per shape recorded in group n, *)
(* in recording order, each with the current transform composed with the   *)
(* recorded member's transform (scene), or one instance frame equal to the *)
(* current transform on each recorded shape, whose own frame stays the     *)
(* member's (pbrt_model).                                                  *)
(***************************************************************************)
C8_ObjectInstanceReplays ==
  [][(Reads("ObjectInstance") /\ status' = "run")
     => LET n == Last(input').name
        IN  \E ctx \in Back :
              IF loader = "sceneio"
              THEN /\ Len(scene_instances') = Len(scene_instances) + Len(omap[n])
                   /\ SubSeq(scene_instances', 1, Len(scene_instances)) = scene_instances
                   /\ \A i \in 1..Len(omap[n]) :
                        scene_instances'[Len(scene_instances) + i].frame =
                          [m |-> (ctx.transform_start.m * omap[n][i].frame.m) % 3,
                           o |-> (ctx.transform_start.m * omap[n][i].frame.o
                                    + ctx.transform_start.o) % 3]
              ELSE /\ Len(pbrt_shapes') = Len(pbrt_shapes)
                   /\ \A i \in 1..Len(pbrt_shapes) :
                        /\ pbrt_shapes'[i].frame = pbrt_shapes[i].frame
                        /\ pbrt_shapes'[i].instance_frames =
                             IF \E k \in 1..Len(objects[n]) : objects[n][k] = i - 1
                             THEN Append(pbrt_shapes[i].instance_frames,
                                         ctx.transform_start)
                             ELSE pbrt_shapes[i].instance_frames]_vars

\* a recorded shape moved by one frame, replayed under a frame that does not
\* commute with it
C8_ReplayedUnderAnotherFrame ==
  /\ loader = "sceneio"
  /\ status = "run"
  /\ Len(input) = 5
  /\ stack # <<>>
  /\ Last(input).cmd = "ObjectInstance"
  /\ Len(scene_instances) = 1
  /\ Len(omap[Last(input).name]) = 1
  /\ LET a == stack[Len(stack)].transform_start
         b == omap[Last(input).name][1].frame
     IN  /\ FrameMul(a, b) # FrameMul(b, a)
         /\ scene_instances[1].frame = FrameMul(a, b)

(***************************************************************************)
(* C9: ObjectInstance adds no entry to scene.shapes and no material; every *)
(* instance it adds references the shape index and the material index      *)
(* stored in the recorded group member, whatever material is current.      *)
(***************************************************************************)
C9_ObjectInstanceSharesGeometry ==
  [][(Reads("ObjectInstance") /\ loader = "sceneio")
     => /\ scene_shapes' = scene_shapes
        /\ scene_materials' = scene_materials
        /\ ammap' = ammap
        /\ mmap' = mmap
        /\ status' = "run" =>
             LET n == Last(input').name
             IN  /\ Len(scene_instances') = Len(scene_instances) + Len(omap[n])
                 /\ \A i \in 1..Len(omap[n]) :
                      LET new == scene_instances'[Len(scene_instances) + i]
                      IN  /\ new.shape = omap[n][i].shape
                          /\ new.material = omap[n][i].material]_vars

\* a member recorded under one material, replayed while another material,
\* with a derived material of its own, is current
C9_ReplayedUnderAnotherMaterial ==
  /\ loader = "sceneio"
  /\ status = "run"
  /\ input # <<>>
  /\ stack # <<>>
  /\ Last(input).cmd = "ObjectInstance"
  /\ Len(omap[Last(input).name]) = 2
  /\ Len(scene_instances) = 2
  /\ Len(scene_shapes) = 2
  /\ scene_instances[1].material = 0
  /\ scene_instances[2].material = 1
  /\ lookup_name(stack[Len(stack)]) \in DOMAIN ammap
  /\ ammap[lookup_name(stack[Len(stack)])] = 1

(***************************************************************************)
(* C10: a Shape processed while an object group is open (after its         *)
(* ObjectBegin, before its ObjectEnd) is appended to that group's record   *)
(* list and adds no instance to the scene; a Shape processed with no open  *)
(* group adds exactly one instance and changes no group.                   *)
(***************************************************************************)
\* the names of the object groups of s still open after s, innermost last
RECURSIVE OpenObjects(_)
OpenObjects(s) ==
  IF s = <<>> THEN <<>>
  ELSE LET o == OpenObjects(Front(s))
       IN  IF Last(s).cmd = "ObjectBegin" THEN Append(o, Last(s).name)
           ELSE IF Last(s).cmd = "ObjectEnd" /\ o # <<>> THEN Front(o)
           ELSE o
C10_ShapeGoesToOpenGroup ==
  [][(Reads("Shape") /\ status' = "run")
     => LET open == OpenObjects(input)
        IN  IF loader = "sceneio"
            THEN IF open # <<>>
                 THEN /\ scene_instances' = scene_instances
                      /\ Len(omap'[Last(open)]) = Len(omap[Last(open)]) + 1
                 ELSE /\ Len(scene_instances') = Len(scene_instances) + 1
                      /\ omap' = omap
            ELSE IF open # <<>>
                 THEN /\ Last(pbrt_shapes').instance_frames = <<>>
                      /\ Len(objects'[Last(open)]) = Len(objects[Last(open)]) + 1
                 ELSE /\ Len(Last(pbrt_shapes').instance_frames) = 1
                      /\ objects' = objects]_vars

(***************************************************************************)
(* The include stack, read off the histories origin, includes and eof.     *)
(***************************************************************************)
\* the streams opened by the Include statements read from the stream h
Children(h) ==
  {includes[k].fs : k \in {x \in DOMAIN includes :
                              includes[x].found /\ origin[includes[x].at].fs = h}}
\* the streams of hs and those opened, directly or not, from them
RECURSIVE Within(_, _)
Within(hs, n) ==
  IF n = 0 THEN hs ELSE Within(hs \cup UNION {Children(h) : h \in hs}, n - 1)
\* the step pops a file that gave no further statement
EndsFile == input' = input /\ files' # files
\* the tables and the lists the statements fill
tables == <<cur_object, sceneVars, modelVars, idVars>>

C12_IncludeRelativeToIncluder ==
  \A k \in DOMAIN includes :
    includes[k].opened = PathJoin(parent_path(includes[k].from), path(includes[k].name))

Failed == status = "error" \/ perror
C15_OpenFilesAreTheIncludeStack ==
  /\ handles = {files[i].fs : i \in DOMAIN files}
  /\ Cardinality(handles) = Len(files)
  /\ status \in {"done", "error"} => handles = {}

\* a parse that failed inside an included file, two files having been open
C15_FailedInsideAnInclude ==
  /\ status = "error"
  /\ origin # <<>>
  /\ origin[Len(origin)].fs # 0
  /\ handles = {}

(***************************************************************************)
(* C16: for finite files whose Includes form no cycle the parse loop       *)
(* terminates; each end of file pops exactly one cursor and the parent     *)
(* resumes; the loop exits exactly when the include stack is empty.        *)
(***************************************************************************)
C16_ParseTerminates ==
  /\ <>(status # "run")
  /\ [][EndsFile /\ eof' # eof =>
          /\ files' = PopBack(files)
          /\ (files' # <<>> => status' = "run")]_vars
  /\ [](status = "run" <=> files # <<>>)

\* the parse ended with success after an included file was read to its end
\* and the including file resumed
C16_ResumedAndFinished ==
  /\ status = "done"
  /\ Cardinality(eof) >= 2
  /\ origin # <<>>
  /\ origin[Len(origin)].fs = 0
  /\ \E i \in DOMAIN origin : origin[i].fs # 0

(***************************************************************************)
(* C17: ConcatTransform A followed by ConcatTransform B leaves the same    *)
(* transform_start and transform_end as one ConcatTransform of the product *)
(* A * B would, whatever the current record was; each ConcatTransform      *)
(* multiplies the active slot(s) from the right and leaves the others.     *)
(***************************************************************************)
C17_ConcatComposes ==
  [][(/\ Reads("ConcatTransform")
      /\ status' = "run"
      /\ stack # <<>>)
     => LET B   == Last(input').xform
            now == Last(stack)
            new == Last(stack')
        IN  /\ new.transform_start =
                 IF now.active_transform_start
                 THEN FrameMul(now.transform_start, B) ELSE now.transform_start
            /\ new.transform_end =
                 IF now.active_transform_end
                 THEN FrameMul(now.transform_end, B) ELSE now.transform_end
            /\ (input # <<>> /\ Last(input).cmd = "ConcatTransform" /\ before # <<>>)
               => LET A   == Last(input).xform
                      AB  == FrameMul(A, B)
                      old == Last(before)
                  IN  /\ new.transform_start =
                           IF old.active_transform_start
                           THEN FrameMul(old.transform_start, AB)
                           ELSE old.transform_start
                      /\ new.transform_end =
                           IF old.active_transform_end
                           THEN FrameMul(old.transform_end, AB)
                           ELSE old.transform_end]_vars

\* two ConcatTransform of frames that do not commute, applied to a record
\* whose start slot alone is active and already holds a frame
C17_TwoConcatsOnOneSlot ==
  /\ status = "run"
  /\ Len(input) = 5
  /\ stack # <<>>
  /\ input[4].cmd = "ConcatTransform"
  /\ input[5].cmd = "ConcatTransform"
  /\ FrameMul(input[4].xform, input[5].xform) # FrameMul(input[5].xform, input[4].xform)
  /\ Last(stack).active_transform_start
  /\ ~Last(stack).active_transform_end
  /\ Last(stack).transform_end # identity3x4f
  /\ Last(stack).transform_start # Last(stack).transform_end

(***************************************************************************)
(* C18: for every parameter value parse_pbrt_params can produce (each      *)
(* kind, scalar and array), parsing the text write_pbrt_values emits for   *)
(* it yields a value of the same kind, name and payload.                   *)
(***************************************************************************)
C18_WrittenValuesParseBack ==
  phase = "done" => (decoded.ok /\ decoded.value = given)

(***************************************************************************)
(* C19: for every command kind, the statement write_pbrt_command emits is  *)
(* accepted by read_pbrt_command and decoded as the same kind with the     *)
(* same name and type arguments.                                           *)
(***************************************************************************)
C19_WrittenCommandReadsBack ==
  phase = "decoded" =>
    /\ decoded.ok
    /\ decoded.command = given.command
    /\ Carries(given.command, "name") => decoded.name = given.name
    /\ Carries(given.command, "type") => decoded.type = given.type

\* the Shape statements of the text written, in order, and the material of
\* the instance the k-th of them is written for
ShapesWritten == {i \in DOMAIN text : text[i].keyword = "Shape"}
InstanceOf(i) == Cardinality({j \in ShapesWritten : j <= i})
MaterialOf(i) == given.materials[given.instances[InstanceOf(i)].material]
Names(i, material) ==
  /\ i \in DOMAIN text
  /\ text[i].keyword = "NamedMaterial"
  /\ text[i].name = stem(material.uri)

(***************************************************************************)
(* C20, as stated: in the statements save_pbrt emits, every Shape          *)
(* statement is preceded by a NamedMaterial statement naming that          *)
(* instance's material, with no other statement between the two.           *)
(***************************************************************************)
C20_NamedMaterialRightBeforeShape ==
  phase = "saved" =>
    /\ Cardinality(ShapesWritten) = Len(given.instances)
    /\ \A i \in ShapesWritten : Names(i - 1, MaterialOf(i))

(***************************************************************************)
(* C20, amended: every Shape statement is preceded by a NamedMaterial      *)
(* statement naming that instance's material, with no statement between    *)
(* the two except, when that material's emission is not zero, the one      *)
(* AreaLightSource statement written for it.                               *)
(***************************************************************************)
C20_NamedMaterialBeforeShapeAndLight ==
  phase = "saved" =>
    /\ Cardinality(ShapesWritten) = Len(given.instances)
    /\ \A i \in ShapesWritten :
         IF MaterialOf(i).emission # <<0, 0, 0>>
         THEN text[i - 1].keyword = "AreaLightSource" /\ Names(i - 2, MaterialOf(i))
         ELSE Names(i - 1, MaterialOf(i))

\* a scene of two instances, one of an emissive material and one not, of
\* materials of different names, has been saved
C20_EmissiveAndPlainInstanceSaved ==
  /\ phase = "saved"
  /\ Len(given.instances) = 2
  /\ given.materials[given.instances[1].material].emission # <<0, 0, 0>>
  /\ given.materials[given.instances[2].material].emission = <<0, 0, 0>>
  /\ stem(given.materials[given.instances[1].material].uri)
       # stem(given.materials[given.instances[2].material].uri)
  /\ Cardinality(ShapesWritten) = 2

(***************************************************************************)
(* The statements of a file read off its lines alone: a line is blank      *)
(* when nothing is left of it without its comment and leading blanks, a    *)
(* keyword line when what is left starts with an uppercase letter, a       *)
(* continuation line otherwise.                                            *)
(***************************************************************************)
Content(line) == skip_whitespace(remove_pbrt_comment(line))
IsBlank(line) == Content(line) = <<>>
IsKeyword(line) == ~IsBlank(line) /\ Content(line)[1].c = "K"
\* the keyword lines of a file, in order, and the lines of the statement
\* that the k-th of them starts
KeywordLines(file) == {i \in DOMAIN file : IsKeyword(file[i])}
StatementLines(file, i) ==
  {j \in i..Len(file) :
     /\ ~IsBlank(file[j])
     /\ \A h \in (i + 1)..j : ~IsKeyword(file[h])}
\* the non-blank lines before the first keyword line
Stray(file) ==
  {j \in DOMAIN file : ~IsBlank(file[j]) /\ \A h \in 1..j : ~IsKeyword(file[h])}
\* the k-th smallest element of a set of numbers
Nth(S, k) == CHOOSE i \in S : Cardinality({j \in S : j <= i}) = k
\* a statement made of whole lines
WholeLines(file, cmd) == \A p \in DOMAIN cmd : cmd[p] = Piece(Position(cmd[p].line, 0), Content(file[cmd[p].line]))
LinesOf(cmd) == {cmd[p].line : p \in DOMAIN cmd}
InOrder(cmd) == \A p, q \in DOMAIN cmd : p < q => cmd[p].line < cmd[q].line

(***************************************************************************)
(* C21: each call of the command reader returns one keyword line with all  *)
(* following non-blank, non-keyword lines up to the next keyword line or   *)
(* the end of the file, the next call starts at that keyword line, every   *)
(* non-blank line belongs to exactly one statement, in file order, and the *)
(* end of input is reported only when nothing was assembled.               *)
(***************************************************************************)
C21_StatementsAreTheLineGroups ==
  phase \in {"cmdline", "end"} /\ Stray(given) = {} =>
    /\ Len(text) <= Cardinality(KeywordLines(given))
    /\ \A k \in DOMAIN text :
         /\ WholeLines(given, text[k])
         /\ InOrder(text[k])
         /\ LinesOf(text[k]) = StatementLines(given, Nth(KeywordLines(given), k))
    /\ phase = "end" => Len(text) = Cardinality(KeywordLines(given))

(***************************************************************************)
(* C30: a first non-blank, non-comment line that does not start with an    *)
(* uppercase letter makes the command reader fail with a malformed         *)
(* statement error; it is never attached to a later statement or dropped.  *)
(***************************************************************************)
C30_StrayContinuationFails ==
  phase \in {"cmdline", "end", "thrown"} /\ Stray(given) # {} /\ decoded.linenum > 0 =>
    /\ phase = "thrown"
    /\ decoded.what = "bad pbrt command"
    /\ text = <<>>

\* the file a stream was opened on
FileOf(fs) ==
  IF fs = 0 THEN TopFile
  ELSE includes[CHOOSE k \in DOMAIN includes : includes[k].found /\ includes[k].fs = fs].opened
\* the statement a failed parse failed on: the first one the reader flagged,
\* the one the exception was thrown in otherwise
Offending ==
  IF \E k \in DOMAIN input : input[k].cmd \in UnknownKeywords
  THEN CHOOSE k \in DOMAIN input :
         /\ input[k].cmd \in UnknownKeywords
         /\ \A h \in 1..(k - 1) : input[h].cmd \notin UnknownKeywords
  ELSE Len(input)
\* the error kinds of the loaders' messages, and an error that names a file
ErrorKinds == {"parse error", "error in include", "file not found", "unknown command",
               "bad stack", "bad pbrt stack", "bad pbrt command"}
Reports(e, filename) ==
  \E kind \in ErrorKinds : e = "error loading " \o PathString(filename) \o ": " \o kind

(***************************************************************************)
(* C22: a parse failure reports the name of the file in which the          *)
(* offending statement occurs, the included file when the statement is in  *)
(* an included file.  (The claim also asks for the 1-based line of the     *)
(* statement; no message of the loaders carries a line, so the formula     *)
(* states the part about the file only.)                                   *)
(***************************************************************************)
C22_FailureNamesTheFile ==
  status = "error" /\ input # <<>> => Reports(error, FileOf(origin[Offending].fs))

\* the innermost *Begin open after the input is not the one the *End c closes
Mismatched(c) ==
  LET o == OpenBegins(input)
  IN  o # Misnested /\ o # <<>> /\ Last(o) # BeginOf(c)

(***************************************************************************)
(* C23: an *End statement whose kind differs from the kind of the          *)
(* innermost open *Begin makes the parse fail with a scope error; the      *)
(* record of the open scope is not popped.                                 *)
(***************************************************************************)
C23_MismatchedEndFails ==
  [][\A c \in Ends :
       (Reads(c) /\ Mismatched(c))
         => (status' = "error" /\ error' \in ScopeErrors /\ stack' = stack)]_vars

(***************************************************************************)
(* C24, as claimed: WorldBegin pushes a duplicate of the current top       *)
(* record: right after WorldBegin the new top record equals the record     *)
(* below it in every field.                                                *)
(***************************************************************************)
C24_WorldBeginDuplicatesTop ==
  [][Reads("WorldBegin") => stack'[Len(stack')] = stack'[Len(stack') - 1]]_vars

(***************************************************************************)
(* C24, amended: WorldBegin pushes a default record: right after           *)
(* WorldBegin the stack is one deeper, the records below are unchanged and *)
(* the new top record has identity transforms, both slots active, empty    *)
(* material, area light and media names and no reversed orientation,       *)
(* whatever the record below it holds.                                     *)
(***************************************************************************)
C24_WorldBeginPushesDefault ==
  [][Reads("WorldBegin") => stack' = Append(stack, pbrt_context)]_vars

C24_DefaultAboveTransformed ==
  /\ status = "run"
  /\ input # <<>>
  /\ Last(input).cmd = "WorldBegin"
  /\ Len(stack) >= 2
  /\ stack[Len(stack)] = pbrt_context
  /\ stack[Len(stack) - 1].transform_start # identity3x4f

(***************************************************************************)
(* C25: an ObjectBegin read while an object group is still open makes the  *)
(* parse fail; it opens no second group.                                   *)
(***************************************************************************)
C25_NestedObjectBeginFails ==
  [][(Reads("ObjectBegin") /\ OpenObjects(input) # <<>>)
       => (status' = "error" /\ cur_object' = cur_object)]_vars

\* every name of the table t is a name of the table u
KeepsNames(t, u) == DOMAIN t \subseteq DOMAIN u
\* every group of the table t is recorded in u with at least as many shapes
KeepsGroups(t, u) ==
  \A n \in DOMAIN t : n \in DOMAIN u /\ Len(u[n]) >= Len(t[n])

(***************************************************************************)
(* C26: during a parse no named-entity table loses content: a name of the  *)
(* material tables or of the object-group table stays in its table, and    *)
(* the list of shapes recorded for an object group never gets shorter,     *)
(* also when ObjectBegin is read again with a name already in the table.   *)
(***************************************************************************)
C26_TablesNeverLoseContent ==
  [][/\ KeepsNames(mmap, mmap')
     /\ KeepsNames(amap, amap')
     /\ KeepsNames(ammap, ammap')
     /\ KeepsGroups(omap, omap')
     /\ KeepsGroups(objects, objects')]_vars

\* the input holds a CoordinateSystem statement of the name n
Saved(n) ==
  \E k \in DOMAIN input : input[k].cmd = "CoordinateSystem" /\ input[k].name = n
\* the transform pair of the record r
PairOf(r) == [transform_start |-> r.transform_start, transform_end |-> r.transform_end]

(***************************************************************************)
(* C27: a CoordSysTransform that names a coordinate system no              *)
(* CoordinateSystem statement saved makes the parse fail; it does not      *)
(* leave the current transform as it is and go on.                         *)
(***************************************************************************)
C27_UnsavedCoordSysFails ==
  [][(Reads("CoordSysTransform") /\ ~Saved(Last(input').name)) => status' = "error"]_vars

(***************************************************************************)
(* C28: after CoordinateSystem "n", a CoordSysTransform "n" sets both      *)
(* transform_start and transform_end of the current record to the pair     *)
(* that was current at the most recent CoordinateSystem "n", whatever the  *)
(* active-transform flags are and whatever scopes were opened or closed in *)
(* between, and changes no other field and no other record.  In steps: a   *)
(* CoordinateSystem "n" saves the current pair under n and touches no      *)
(* other name; no other statement changes what is saved; and a             *)
(* CoordSysTransform "n" assigns the pair saved under n.                   *)
(***************************************************************************)
C28_CoordSysTransformRestoresPair ==
  [][/\ (Reads("CoordinateSystem") /\ status' = "run" /\ stack # <<>>)
          => coordsys' = Put(coordsys, Last(input').name, PairOf(Last(stack)))
     /\ ~Reads("CoordinateSystem") => coordsys' = coordsys
     /\ (Reads("CoordSysTransform") /\ Saved(Last(input').name)
           /\ status' = "run" /\ stack # <<>>)
          => stack' = SetBack(stack,
                        [Last(stack) EXCEPT
                           !.transform_start = coordsys[Last(input').name].transform_start,
                           !.transform_end   = coordsys[Last(input').name].transform_end])]_vars

\* a pair saved with both slots active is restored inside a later transform
\* scope, into a record whose start slot alone is active and whose slots
\* hold other frames by then
C28_RestoredAcrossScopeAndFlags ==
  /\ status = "run"
  /\ Len(input) = 5
  /\ input[1].cmd = "CoordinateSystem"
  /\ input[2].cmd = "TransformBegin"
  /\ input[3].cmd = "ActiveTransform" /\ input[3].name = "StartTime"
  /\ input[4].cmd = "ConcatTransform"
  /\ input[5].cmd = "CoordSysTransform" /\ input[5].name = input[1].name
  /\ Len(stack) = 2
  /\ Last(before).transform_start # Last(before).transform_end
  /\ PairOf(Last(stack)) = PairOf(pbrt_context)
  /\ ~Last(stack).active_transform_end

\* the statements that write the transform slots through the active flags
SlotCommands == {"Transform", "ConcatTransform", "Scale", "Translate", "Rotate", "LookAt"}

(***************************************************************************)
(* C29: Transform M replaces transform_start exactly when the start slot   *)
(* is active and transform_end exactly when the end slot is active; a slot *)
(* that ActiveTransform deactivated is left unchanged by Transform,        *)
(* ConcatTransform, Scale, Translate, Rotate and LookAt, and none of them  *)
(* touches the records below the current one.                              *)
(***************************************************************************)
C29_TransformsWriteActiveSlotsOnly ==
  [][\A c \in SlotCommands :
       (Reads(c) /\ status' = "run" /\ stack # <<>>)
         => LET now == Last(stack)
                new == Last(stack')
                M   == Last(input').xform
            IN  /\ Front(stack') = Front(stack)
                /\ c = "Transform" =>
                     /\ new.transform_start =
                          IF now.active_transform_start THEN M ELSE now.transform_start
                     /\ new.transform_end =
                          IF now.active_transform_end THEN M ELSE now.transform_end
                /\ ~now.active_transform_start => new.transform_start = now.transform_start
                /\ ~now.active_transform_end => new.transform_end = now.transform_end]_vars

\* a Transform read while the end slot alone is active, the start slot
\* holding what a LookAt left there
C29_TransformOnEndSlotOnly ==
  /\ status = "run"
  /\ Len(input) >= 3
  /\ Last(input).cmd = "Transform"
  /\ \E k \in DOMAIN input : input[k].cmd = "LookAt"
  /\ ~Last(stack).active_transform_start
  /\ Last(stack).active_transform_end
  /\ Last(stack).transform_end = Last(input).xform
  /\ Last(stack).transform_start = Last(before).transform_start
  /\ Last(stack).transform_start \notin {identity3x4f, Last(input).xform}

(***************************************************************************)
(* The one parameter of a parameter list, read off its text: the declared  *)
(* type, the tokens of its value and the elements they spell.              *)
(***************************************************************************)
Declared == text[1].s[1]
ElementKind == pbrt_types[Declared][2]
ElementSize == IF ElementKind = "string" THEN 1 ELSE Arity[ElementKind]
IsBracketed == Len(text) >= 3 /\ text[2] = Open /\ text[Len(text)] = Close
Inner == IF IsBracketed THEN SubSeq(text, 3, Len(text) - 1) ELSE Tail(text)
\* the value is made of whole elements of the declared kind
WholeElements ==
  /\ \A i \in DOMAIN Inner :
       Inner[i].t = IF ElementKind = "string" THEN "str" ELSE "num"
  /\ Len(Inner) % ElementSize = 0
Count == Len(Inner) \div ElementSize
Element(k) ==
  IF ElementKind = "string" THEN Inner[k].s
  ELSE IF ElementSize = 1 THEN Inner[k].n
  ELSE [i \in 1..ElementSize |-> Inner[(k - 1) * ElementSize + i].n]
\* what a parameter of the declared type keeps of the element e
Kept(e) == IF Declared = "bool" THEN e = <<"true">> ELSE e
\* the scalar payload and the array payload of a value, by its type
ScalarPayload(v) ==
  CASE v.type \in {"real", "spectrum"} -> v.value1f
    [] v.type = "integer" -> v.value1i
    [] v.type \in {"string", "texture"} -> v.value1s
    [] v.type = "boolean" -> v.value1b
    [] v.type \in {"point2", "vector2"} -> v.value2f
    [] OTHER -> v.value3f
ArrayPayload(v) ==
  CASE v.type \in {"real", "spectrum"} -> v.vector1f
    [] v.type = "integer" -> v.vector1i
    [] v.type \in {"string", "texture", "boolean"} -> <<>>
    [] v.type \in {"point2", "vector2"} -> v.vector2f
    [] OTHER -> v.vector3f
\* parse_pbrt_params has run on the text of one parameter
ParamParsed == phase \in {"write", "rejected"}

(***************************************************************************)
(* C31: for a bracketed parameter value the parser stores the element in   *)
(* the scalar payload and leaves the array payload empty when exactly one  *)
(* element of the declared arity is read, and stores all elements, in      *)
(* order, in the array payload when more than one is read (for the types   *)
(* that have an array payload: the numeric ones); an empty pair of         *)
(* brackets is rejected.  The type xyz, which always throws, is left out.  *)
(***************************************************************************)
C31_OneElementIsScalar ==
  (ParamParsed /\ IsBracketed /\ WholeElements /\ Declared # "xyz") =>
    /\ Count = 0 => phase = "rejected"
    /\ Count = 1 =>
         /\ phase = "write"
         /\ Len(given) = 1
         /\ ScalarPayload(given[1]) = Kept(Element(1))
         /\ ArrayPayload(given[1]) = <<>>
    /\ (Count > 1 /\ ElementKind # "string") =>
         /\ phase = "write"
         /\ Len(given) = 1
         /\ ArrayPayload(given[1]) = [k \in 1..Count |-> Element(k)]

\* a vector of one bracketed element, stored as a scalar
C31_BracketedPointStoredAsScalar ==
  /\ phase = "write"
  /\ IsBracketed
  /\ Declared = "point"
  /\ Count = 1
  /\ given[1].value3f = Element(1)
  /\ given[1].vector3f = <<>>

(***************************************************************************)
(* C32: a parameter declared string, bool or texture whose bracketed value *)
(* holds more than one element makes the parse fail with the error of the  *)
(* unsupported string array; with exactly one element, bracketed or bare,  *)
(* it is accepted and the element is stored.                               *)
(***************************************************************************)
C32_StringArrayRejected ==
  (ParamParsed /\ ElementKind = "string" /\ WholeElements) =>
    /\ (IsBracketed /\ Count > 1) =>
         /\ phase = "rejected"
         /\ decoded.what = "do not support pbrt string array"
    /\ Count = 1 =>
         /\ phase = "write"
         /\ Len(given) = 1
         /\ ScalarPayload(given[1]) = Kept(Element(1))

\* a bool given as two bracketed strings, rejected
C32_TwoStringsRejected ==
  /\ phase = "rejected"
  /\ Declared = "bool"
  /\ IsBracketed
  /\ WholeElements
  /\ Count = 2

\* the parameter is a spectrum given by a file name, bare or in brackets
IsSpectrumFile ==
  /\ Declared = "spectrum"
  /\ Inner # <<>>
  /\ Inner[1].t = "str"
\* the file name ends in .eta.spd or .k.spd and its base name is a key of
\* the metal table
MetalFile(words) ==
  LET p == path_filename(words)
  IN  /\ Len(p) = 3
      /\ p[3] = "spd"
      /\ p[2] \in {"eta", "k"}
      /\ p[1] \in DOMAIN metal_ior_table
MetalColor(words) ==
  LET p == path_filename(words)
  IN  metal_ior_table[p[1]][IF p[2] = "eta" THEN "first" ELSE "second"]

(***************************************************************************)
(* C33: a spectrum parameter given as a quoted file name is accepted       *)
(* exactly when the file name ends in .eta.spd or .k.spd and its base name *)
(* is a key of the builtin metal table, and it then holds that entry's eta *)
(* or k; every other file name is rejected.                                *)
(***************************************************************************)
C33_OnlyMetalFilesAccepted ==
  (ParamParsed /\ IsSpectrumFile) =>
    IF MetalFile(Inner[1].s)
    THEN /\ phase = "write"
         /\ Len(given) = 1
         /\ given[1].type = "color"
         /\ given[1].value3f = MetalColor(Inner[1].s)
    ELSE phase = "rejected"

(***************************************************************************)
(* C34: the result of loading depends only on the contents of the input    *)
(* files: a second load of the same input in the same process ends as the  *)
(* first did and yields the same lists, the generated names of the unnamed *)
(* materials, area lights, lights and shapes included.                     *)
(***************************************************************************)
C34_SecondLoadIsTheSame ==
  (phase = "reload" /\ status # "run") => (status = "done" /\ Loaded = decoded)

(***************************************************************************)
(* C35: in the scene loader the material a Shape references is derived     *)
(* from the definition of its current material name that is the most       *)
(* recent when the Shape is processed (the entry of mmap at that time),    *)
(* also when MakeNamedMaterial has redefined a name that an earlier Shape  *)
(* used with the same area light.                                          *)
(***************************************************************************)
C35_ShapeUsesLatestDefinition ==
  [][(Reads("Shape") /\ loader = "sceneio" /\ status' = "run" /\ stack # <<>>)
       => scene_materials'[Last(used').index + 1].type
            = mmap[Last(stack).material].type]_vars

(***************************************************************************)
(* C36: MakeNamedMaterial registers the material under its name and leaves *)
(* the current material of the scope unchanged.                            *)
(***************************************************************************)
C36_MakeNamedMaterialKeepsCurrent ==
  [][(Reads("MakeNamedMaterial") /\ status' = "run" /\ stack # <<>>)
       => /\ IF loader = "sceneio"
             THEN /\ Last(input').name \in DOMAIN mmap'
                  /\ mmap'[Last(input').name].type = Last(input').type
             ELSE /\ Last(pbrt_materials').name = Last(input').name
                  /\ Last(pbrt_materials').type = Last(input').type
          /\ stack' # <<>>
          /\ Last(stack').material = Last(stack).material]_vars

(***************************************************************************)
(* C37: an argument written in brackets is accepted only if a closing ]    *)
(* follows the value: with any other character after the value, or with    *)
(* the end of the statement, it is rejected with an error; on success the  *)
(* ] and nothing else is consumed.                                         *)
(***************************************************************************)
BracketedString ==
  /\ Len(text) >= 2
  /\ text[1] = Open
  /\ text[2].t = "str"
C37_ClosingBracketRequired ==
  (phase # "argument" /\ BracketedString)
    => IF Len(text) >= 3 /\ text[3] = Close
       THEN /\ phase = "parsed"
            /\ decoded.value = Text(text[2].s)
            /\ decoded.rest = SubSeq(text, 4, Len(text))
       ELSE phase = "rejected"

(***************************************************************************)
(* The stack transitions of the interpreter over the text written: every   *)
(* *Begin pushes a record and every *End pops one, from a stack of one     *)
(* record.                                                                 *)
(***************************************************************************)
At(keyword) == {i \in DOMAIN text : text[i].keyword = keyword}
Pushes(i) == Cardinality({j \in 1..i : text[j].keyword \in Begins})
Pops(i) == Cardinality({j \in 1..i : text[j].keyword \in Ends})
\* the depth of the stack after the first i statements
Depth(i) == 1 + Pushes(i) - Pops(i)
\* the *Begin that the *End at j closes: the last one before j that was
\* read at the depth the *End returns to (0 when there is none)
Openers(j) ==
  {i \in 1..(j - 1) : text[i].keyword \in Begins /\ Depth(i - 1) = Depth(j)}
Opener(j) ==
  IF Openers(j) = {} THEN 0 ELSE CHOOSE i \in Openers(j) : \A k \in Openers(j) : k <= i
\* the *End that closes the *Begin at i (0 when it stays open)
Closers(i) ==
  {j \in (i + 1)..Len(text) : text[j].keyword \in Ends /\ Opener(j) = i}

(***************************************************************************)
(* C38: the text save_pbrt emits is well nested: one WorldBegin, followed  *)
(* later by one WorldEnd; every AttributeBegin and TransformBegin is       *)
(* closed by the End of its own kind, in reverse order of opening; the     *)
(* stack of the interpreter run over the text never goes below one record  *)
(* and ends with one record.                                               *)
(***************************************************************************)
C38_SavedTextWellNested ==
  phase = "saved" =>
    /\ Cardinality(At("WorldBegin")) = 1
    /\ Cardinality(At("WorldEnd")) = 1
    /\ \A b \in At("WorldBegin") : \A e \in At("WorldEnd") : b < e
    /\ \A j \in DOMAIN text :
         text[j].keyword \in Ends
           => /\ Opener(j) # 0
              /\ text[Opener(j)].keyword = BeginOf(text[j].keyword)
    /\ \A i \in DOMAIN text :
         text[i].keyword \in Begins => Closers(i) # {}
    /\ \A i \in DOMAIN text : Depth(i) >= 1
    /\ Depth(Len(text)) = 1

\* a scene of two instances has been saved: the text holds two
\* AttributeBegin, each with a TransformBegin inside it, three records deep
C38_TwoInstancesSaved ==
  /\ phase = "saved"
  /\ Len(given.instances) = 2
  /\ Cardinality(At("AttributeBegin")) = 2
  /\ Cardinality(At("TransformEnd")) = 2
  /\ \A i \in At("TransformBegin") : Depth(i) = 4 /\ text[i - 1].keyword = "AttributeBegin"

(***************************************************************************)
(* C39: save_pbrt_scene returns success exactly when the statement file,   *)
(* every shape file and every texture were written successfully (the       *)
(* textures unless params.notextures leaves them out), and returns         *)
(* failure as soon as one shape fails to save: no later shape is written.  *)
(***************************************************************************)
EverythingWritten ==
  /\ given.file
  /\ AllSaved(given.shapes)
  /\ given.notextures \/ (AllSaved(given.textures) /\ AllSaved(given.voltextures))
C39_SuccessExactlyWhenAllWritten ==
  phase = "returned" =>
    /\ decoded.ok <=> EverythingWritten
    /\ \A k \in 1..Len(text) :
         ~given.shapes[k] => (~decoded.ok /\ Len(text) = k)

====
